---- MODULE Spec2Model ----
(***************************************************************************)
(* Identity resolution and call merging of wrap2025.                       *)
(*                                                                         *)
(* Strings are sequences of one-character strings, so that Python's        *)
(* slicing, re.sub, split, strip and formatting are computed character by  *)
(* character.  Python's None is the value None below.                      *)
(***************************************************************************)
EXTENDS Integers, Sequences, FiniteSets, TLC

VARIABLES
    book,           \* AddressBook rows read by the contact extractors
    pushRows,       \* ZWAPROFILEPUSHNAME rows (jid, push name)
    call,           \* the last resolver / normalizer call: function, arguments, result
    pc,             \* where main of call_wrapped.py stands
    phone_rows,     \* ZCALLRECORD rows analyze_phone_calls has iterated over
    wa_rows,        \* ZWACDCALLEVENT rows analyze_whatsapp_calls has iterated over
    phone_calls,    \* the list analyze_phone_calls builds
    whatsapp_calls, \* the list analyze_whatsapp_calls builds
    all_calls,      \* analyze_calls: the two lists joined and sorted by timestamp
    stats,          \* analyze_calls: d['stats']
    phone_stats,    \* analyze_calls: the per-key tallies, in dict insertion order
    contact_stats,  \* analyze_calls: the per-name profiles, in dict insertion order
    next_key,       \* analyze_calls: index of the next phone_stats item to convert
    report,         \* analyze_calls: the dictionary d it returns
    previous,       \* the report of the run before this one
    now,            \* the wall clock, in seconds
    metric,         \* the last call of a part of the report on its own: function, arguments, result
    has_phone,      \* main of call_wrapped.py: check_access found the call history readable
    has_whatsapp,   \* main of call_wrapped.py: check_access found the WhatsApp calls readable
    spinner,        \* the Spinner of main: its spinning flag and its thread
    alive,          \* the spin threads that were started and have not returned
    db,             \* the call history and WhatsApp call databases main finds on the disk
    data_dir,       \* people_wrapped.py: the JSON files of DATA_DIR
    html,           \* people_wrapped.py: the contacts of the HTML report, once built
    extracted,      \* people_wrapped.py: the contacts of the most recent extraction
    command,        \* people_wrapped.py: the command that runs and the steps it has taken
    app,            \* LocalBrief: the fields data, loading and load_status
    timers,         \* LocalBrief: the callbacks root.after has scheduled and not yet run
    loaders,        \* LocalBrief: the _load_data threads that have not returned
    screen,         \* LocalBrief: what the text widget shows
    hours,          \* LocalBrief: the hours since the application started
    presses,        \* LocalBrief: the number of times Cmd-R was pressed
    started         \* LocalBrief: the number of _load_data threads started

resolveVars == <<book, pushRows, call>>

callVars == <<pc, phone_rows, wa_rows, phone_calls, whatsapp_calls, all_calls, stats,
              phone_stats, contact_stats, next_key>>

metricVars == <<report, previous, now, metric>>

mainVars == <<has_phone, has_whatsapp, spinner, alive, db>>

peopleVars == <<data_dir, html, extracted, command>>

briefVars == <<app, timers, loaders, screen, hours, presses, started>>

\* The state of the parts of the programs outside the call analysis.
programVars == <<mainVars, peopleVars, briefVars>>

vars == <<book, pushRows, call, pc, phone_rows, wa_rows, phone_calls, whatsapp_calls,
          all_calls, stats, phone_stats, contact_stats, next_key, report, previous, now,
          metric, has_phone, has_whatsapp, spinner, alive, db, data_dir, html, extracted,
          command, app, timers, loaders, screen, hours, presses,
          started>>

----------------------------------------------------------------------------
(* Bounds of the model *)

\* Largest number of AddressBook rows in a directory.
MaxBook == 2

\* Largest number of call rows (ZCALLRECORD and ZWACDCALLEVENT together) of a run.
MaxRows == 3

\* Largest number of calls in the short lists analyze_calls is run on.
MaxEvents == 3

----------------------------------------------------------------------------
(* Python values and string primitives *)

\* Python's None: a one-element sequence that is no string of characters.
None == <<"None">>

Digits == {"0", "1", "2", "3", "4", "5", "6", "7", "8", "9"}

Letters == {"A", "B", "C", "Z", "a", "b", "c", "d", "e", "l", "o", "s", "x", "y", "z"}

Whitespace == {" "}

IsDigit(c) == c \in Digits

\* Python truthiness of an optional string: None and '' are falsy.
Truthy(s) == s # None /\ s # <<>>

\* re.sub(r'\D', '', s)
StripNonDigits(s) == SelectSeq(s, IsDigit)

\* s[-n:]
Suffix(s, n) == IF Len(s) <= n THEN s ELSE SubSeq(s, Len(s) - n + 1, Len(s))

\* s[-10:-7]
TripletOf(s) ==
    IF Len(s) < 8 THEN <<>>
    ELSE SubSeq(s, (IF Len(s) > 10 THEN Len(s) - 10 ELSE 0) + 1, Len(s) - 7)

\* s[i:j] for 0 <= i <= j, clipped to the string as Python does
Slice(s, i, j) == SubSeq(s, i + 1, IF j > Len(s) THEN Len(s) ELSE j)

\* s[i:]
From(s, i) == SubSeq(s, i + 1, Len(s))

\* '@' in s
HasAt(s) == \E i \in 1..Len(s) : s[i] = "@"

\* s.split('@')[0]
BeforeAt(s) ==
    IF HasAt(s)
    THEN SubSeq(s, 1, (CHOOSE i \in 1..Len(s) :
                          s[i] = "@" /\ \A j \in 1..(i - 1) : s[j] # "@") - 1)
    ELSE s

\* c.lower() for the letters of the model's alphabet
LowerChar(c) ==
    CASE c = "A" -> "a"
      [] c = "B" -> "b"
      [] c = "C" -> "c"
      [] c = "Z" -> "z"
      [] OTHER -> c

\* s.lower()
Lower(s) == [i \in 1..Len(s) |-> LowerChar(s[i])]

\* s.strip()
RECURSIVE LStrip(_)
LStrip(s) == IF s # <<>> /\ Head(s) \in Whitespace THEN LStrip(Tail(s)) ELSE s

RECURSIVE RStrip(_)
RStrip(s) ==
    IF s # <<>> /\ s[Len(s)] \in Whitespace THEN RStrip(SubSeq(s, 1, Len(s) - 1)) ELSE s

Strip(s) == RStrip(LStrip(s))

\* any(c.isalpha() for c in s)
AnyAlpha(s) == \E i \in 1..Len(s) : s[i] \in Letters

\* contacts[k] = v
Put(contacts, k, v) == (k :> v) @@ contacts

\* The toll-free prefixes tested by the resolvers.
TollFree == { <<"8","0","0">>, <<"8","8","8">>, <<"8","7","7">>, <<"8","6","6">>,
              <<"8","5","5">>, <<"8","4","4">>, <<"8","3","3">> }

----------------------------------------------------------------------------
(* call_wrapped.py *)

\* normalize_phone with the long-number rule of people_wrapped.py: more than 10 digits
\* that are not 1 and 10 more are returned whole.
normalize_phone_keeps_long(phone) ==
    IF ~Truthy(phone) THEN None
    ELSE LET raw == StripNonDigits(phone)
             strip1 == Len(raw) = 11 /\ Head(raw) = "1"
             digits == IF strip1 THEN Tail(raw) ELSE raw
         IN IF ~strip1 /\ Len(raw) > 10 THEN raw
            ELSE IF Len(digits) >= 10 THEN Suffix(digits, 10)
            ELSE IF Len(digits) >= 7 THEN digits
            ELSE None

\* normalize_phone of call_wrapped.py
normalize_phone(phone) ==
    IF ~Truthy(phone) THEN None
    ELSE LET raw == StripNonDigits(phone)
             strip1 == Len(raw) = 11 /\ Head(raw) = "1"
             digits == IF strip1 THEN Tail(raw) ELSE raw
         IN IF ~strip1 /\ Len(raw) > 10 THEN Suffix(raw, 10)
            ELSE IF Len(digits) >= 10 THEN Suffix(digits, 10)
            ELSE IF Len(digits) >= 7 THEN digits
            ELSE None

\* The body of extract_contacts' loop over ZABCDPHONENUMBER: one (owner name, number).
ExtractPhoneRow(contacts, name, phone) ==
    LET digits == StripNonDigits(phone)
        c1 == Put(contacts, digits, name)
        c2 == IF Len(digits) >= 10 THEN Put(c1, Suffix(digits, 10), name) ELSE c1
        c3 == IF Len(digits) >= 7 THEN Put(c2, Suffix(digits, 7), name) ELSE c2
        c4 == IF Len(digits) = 11 /\ Head(digits) = "1"
              THEN Put(c3, Tail(digits), name) ELSE c3
    IN IF digits # <<>> THEN c4 ELSE contacts

\* extract_contacts of call_wrapped.py: phone rows only, later rows overwrite.
RECURSIVE extract_contacts(_)
extract_contacts(rows) ==
    IF rows = <<>> THEN <<>>
    ELSE LET n == Len(rows)
             sofar == extract_contacts(SubSeq(rows, 1, n - 1))
             row == rows[n]
         IN IF row.kind = "phone" /\ row.name # <<>>
            THEN ExtractPhoneRow(sofar, row.name, row.value)
            ELSE sofar

\* get_name's lookups with the last-7 tier tried right after the full digits.
get_name_tiers_last7_first(digits, contacts) ==
    IF digits \in DOMAIN contacts THEN contacts[digits]
    ELSE IF Len(digits) >= 7 /\ Suffix(digits, 7) \in DOMAIN contacts
         THEN contacts[Suffix(digits, 7)]
    ELSE IF Len(digits) = 11 /\ Head(digits) = "1" /\ Tail(digits) \in DOMAIN contacts
         THEN contacts[Tail(digits)]
    ELSE IF Len(digits) >= 10 /\ Suffix(digits, 10) \in DOMAIN contacts
         THEN contacts[Suffix(digits, 10)]
    ELSE None

\* get_name's lookups without the country-code tiers: full digits, then last 7.
get_name_tiers_no_country_code(digits, contacts) ==
    IF digits \in DOMAIN contacts THEN contacts[digits]
    ELSE IF Len(digits) >= 7 /\ Suffix(digits, 7) \in DOMAIN contacts
         THEN contacts[Suffix(digits, 7)]
    ELSE None

\* get_name's lookups falling back to the digits instead of None.
get_name_tiers_fallback_digits(digits, contacts) ==
    IF digits \in DOMAIN contacts THEN contacts[digits]
    ELSE IF Len(digits) = 11 /\ Head(digits) = "1" /\ Tail(digits) \in DOMAIN contacts
         THEN contacts[Tail(digits)]
    ELSE IF Len(digits) >= 10 /\ Suffix(digits, 10) \in DOMAIN contacts
         THEN contacts[Suffix(digits, 10)]
    ELSE IF Len(digits) >= 7 /\ Suffix(digits, 7) \in DOMAIN contacts
         THEN contacts[Suffix(digits, 7)]
    ELSE digits

\* The directory lookups of get_name, in the order of the code: the full digits, the
\* digits after a leading 1 of 11, the last 10, the last 7; None when none hits.
get_name_tiers(digits, contacts) ==
    IF digits \in DOMAIN contacts THEN contacts[digits]
    ELSE IF Len(digits) = 11 /\ Head(digits) = "1" /\ Tail(digits) \in DOMAIN contacts
         THEN contacts[Tail(digits)]
    ELSE IF Len(digits) >= 10 /\ Suffix(digits, 10) \in DOMAIN contacts
         THEN contacts[Suffix(digits, 10)]
    ELSE IF Len(digits) >= 7 /\ Suffix(digits, 7) \in DOMAIN contacts
         THEN contacts[Suffix(digits, 7)]
    ELSE None

\* get_name with the full-digit lookup made before the toll-free test.
get_name_lookup_first(phone, contacts) ==
    IF ~Truthy(phone) THEN None
    ELSE LET digits == StripNonDigits(phone) IN
         IF 5 <= Len(digits) /\ Len(digits) <= 6 THEN None
         ELSE IF digits \in DOMAIN contacts THEN contacts[digits]
         ELSE IF Len(digits) >= 10 /\ TripletOf(digits) \in TollFree THEN None
         ELSE get_name_tiers(digits, contacts)

\* get_name without the short-code test.
get_name_no_short_code(phone, contacts) ==
    IF ~Truthy(phone) THEN None
    ELSE LET digits == StripNonDigits(phone) IN
         IF Len(digits) >= 10 /\ TripletOf(digits) \in TollFree THEN None
         ELSE get_name_tiers(digits, contacts)

\* get_name of call_wrapped.py
get_name(phone, contacts) ==
    IF ~Truthy(phone) THEN None
    ELSE LET digits == StripNonDigits(phone) IN
         IF 5 <= Len(digits) /\ Len(digits) <= 6 THEN None
         ELSE IF Len(digits) >= 10 /\ TripletOf(digits) \in TollFree THEN None
         ELSE get_name_tiers(digits, contacts)

----------------------------------------------------------------------------
(* combined_wrapped.py and people_wrapped.py *)

\* normalize_phone of people_wrapped.py (combined_wrapped.py has the same text)
people_normalize_phone(phone) ==
    IF ~Truthy(phone) THEN None
    ELSE LET raw == StripNonDigits(phone)
             strip1 == Len(raw) = 11 /\ Head(raw) = "1"
             digits == IF strip1 THEN Tail(raw) ELSE raw
         IN IF ~strip1 /\ Len(raw) > 10 THEN raw
            ELSE IF Len(digits) >= 10 THEN Suffix(digits, 10)
            ELSE IF Len(digits) >= 7 THEN digits
            ELSE None

\* extract_imessage_contacts of combined_wrapped.py: the phone rows as in
\* extract_contacts, and each e-mail row under its lowercased, stripped address.
RECURSIVE extract_imessage_contacts(_)
extract_imessage_contacts(rows) ==
    IF rows = <<>> THEN <<>>
    ELSE LET n == Len(rows)
             sofar == extract_imessage_contacts(SubSeq(rows, 1, n - 1))
             row == rows[n]
         IN IF row.name = <<>> THEN sofar
            ELSE IF row.kind = "phone" THEN ExtractPhoneRow(sofar, row.name, row.value)
            ELSE Put(sofar, Strip(Lower(row.value)), row.name)

\* extract_whatsapp_contacts of combined_wrapped.py: jid -> push name
RECURSIVE extract_whatsapp_contacts(_)
extract_whatsapp_contacts(rows) ==
    IF rows = <<>> THEN <<>>
    ELSE LET n == Len(rows)
             sofar == extract_whatsapp_contacts(SubSeq(rows, 1, n - 1))
             row == rows[n]
         IN IF Truthy(row.jid) /\ Truthy(row.name)
            THEN Put(sofar, row.jid, row.name)
            ELSE sofar

\* get_name_imessage of combined_wrapped.py
get_name_imessage(handle, contacts) ==
    IF HasAt(handle)
    THEN LET lookup == Strip(Lower(handle)) IN
         IF lookup \in DOMAIN contacts THEN contacts[lookup] ELSE BeforeAt(handle)
    ELSE LET digits == StripNonDigits(handle) IN
         IF digits \in DOMAIN contacts THEN contacts[digits]
         ELSE IF Len(digits) = 11 /\ Head(digits) = "1" /\ Tail(digits) \in DOMAIN contacts
              THEN contacts[Tail(digits)]
         ELSE IF Len(digits) >= 10 /\ Suffix(digits, 10) \in DOMAIN contacts
              THEN contacts[Suffix(digits, 10)]
         ELSE IF Len(digits) >= 7 /\ Suffix(digits, 7) \in DOMAIN contacts
              THEN contacts[Suffix(digits, 7)]
         ELSE handle

\* get_name_whatsapp of combined_wrapped.py
get_name_whatsapp(jid, contacts) ==
    IF ~Truthy(jid) THEN <<"U","n","k","n","o","w","n">>
    ELSE IF jid \in DOMAIN contacts THEN contacts[jid]
    ELSE IF HasAt(jid)
         THEN LET phone == BeforeAt(jid) IN
              IF Len(phone) = 10
              THEN <<"(">> \o Slice(phone, 0, 3) \o <<")", " ">> \o Slice(phone, 3, 6)
                   \o <<"-">> \o From(phone, 6)
              ELSE IF Len(phone) = 11 /\ Head(phone) = "1"
              THEN <<"+", "1", " ", "(">> \o Slice(phone, 1, 4) \o <<")", " ">>
                   \o Slice(phone, 4, 7) \o <<"-">> \o From(phone, 7)
              ELSE <<"+">> \o phone
    ELSE jid

\* The push-name table read at the top of analyze_whatsapp_calls (call_wrapped.py)
load_wa_contacts(rows) == extract_whatsapp_contacts(rows)

\* The name lookup of analyze_whatsapp_calls' loop body (call_wrapped.py): the push
\* name of the JID when it has one, else get_name of the part before '@'.
whatsapp_call_name(jid, wa_contacts, contacts) ==
    LET phone == IF Truthy(jid) THEN BeforeAt(jid) ELSE None
        name == IF jid \in DOMAIN wa_contacts THEN wa_contacts[jid] ELSE None
    IN IF ~Truthy(name) /\ Truthy(phone) THEN get_name(phone, contacts) ELSE name

----------------------------------------------------------------------------
(* localbrief.py *)

SqlRemoved == {" ", "-", "(", ")", "+"}

NotSqlRemoved(c) == c \notin SqlRemoved

\* The body of load_contacts' loop over phone rows: the number with ' ', '-', '(',
\* ')' and '+' removed by the query, stored under its last 7 and last 10 characters.
LoadPhoneRow(contacts, name, fullnumber) ==
    LET phone == SelectSeq(fullnumber, NotSqlRemoved)
        c1 == Put(contacts, Suffix(phone, 7), name)
        c2 == IF Len(phone) >= 10 THEN Put(c1, Suffix(phone, 10), name) ELSE c1
    IN IF phone # <<>> /\ Len(phone) >= 7 THEN c2 ELSE contacts

\* The phone loop of load_contacts.
RECURSIVE LoadPhones(_)
LoadPhones(rows) ==
    IF rows = <<>> THEN <<>>
    ELSE LET n == Len(rows)
             sofar == LoadPhones(SubSeq(rows, 1, n - 1))
             row == rows[n]
         IN IF row.kind = "phone" THEN LoadPhoneRow(sofar, row.name, row.value) ELSE sofar

\* The e-mail loop of load_contacts, run after the phone loop.
RECURSIVE LoadEmails(_, _)
LoadEmails(rows, contacts) ==
    IF rows = <<>> THEN contacts
    ELSE LET n == Len(rows)
             sofar == LoadEmails(SubSeq(rows, 1, n - 1), contacts)
             row == rows[n]
         IN IF row.kind = "email" /\ row.value # <<>>
            THEN Put(sofar, Lower(row.value), row.name)
            ELSE sofar

\* load_contacts of localbrief.py
load_contacts(rows) == LoadEmails(rows, LoadPhones(rows))

\* The e-mail branch of resolve_contact: the directory entry of the lowercased
\* address, else the part before '@' when it has a letter, else None.
resolve_email(ident, contacts) ==
    LET key == Lower(ident)
        username == BeforeAt(ident)
    IN IF key \in DOMAIN contacts THEN contacts[key]
       ELSE IF AnyAlpha(username) THEN username
       ELSE None

\* The phone branch of resolve_contact.
resolve_phone(ident, contacts) ==
    LET cleaned == StripNonDigits(ident) IN
    IF 5 <= Len(cleaned) /\ Len(cleaned) <= 6 THEN None
    ELSE IF Len(cleaned) >= 10 /\ TripletOf(cleaned) \in TollFree THEN None
    ELSE IF Len(cleaned) >= 10 /\ Suffix(cleaned, 10) \in DOMAIN contacts
         THEN contacts[Suffix(cleaned, 10)]
    ELSE IF Len(cleaned) >= 7 /\ Suffix(cleaned, 7) \in DOMAIN contacts
         THEN contacts[Suffix(cleaned, 7)]
    ELSE None

\* resolve_contact with the display name used only when the lookups give nothing.
resolve_contact_name_last(identifier, contacts, whatsapp_name) ==
    IF ~Truthy(identifier) THEN None
    ELSE LET ident == Strip(identifier)
             found == IF HasAt(ident) THEN resolve_email(ident, contacts)
                      ELSE resolve_phone(ident, contacts)
         IN IF found # None THEN found
            ELSE IF Truthy(whatsapp_name) /\ Strip(whatsapp_name) # <<>>
                 THEN Strip(whatsapp_name)
            ELSE None

\* resolve_contact of localbrief.py
resolve_contact(identifier, contacts, whatsapp_name) ==
    IF ~Truthy(identifier) THEN None
    ELSE IF Truthy(whatsapp_name) /\ Strip(whatsapp_name) # <<>> THEN Strip(whatsapp_name)
    ELSE LET ident == Strip(identifier) IN
         IF HasAt(ident) THEN resolve_email(ident, contacts)
         ELSE resolve_phone(ident, contacts)

----------------------------------------------------------------------------
(* Inputs of the resolver calls *)

S_Al == <<"A", "l">>  \* "Al"
S_Bo == <<"B", "o">>  \* "Bo"
S_Cy == <<"C", "y">>  \* "Cy"
S_Zed == <<"Z", "e", "d">>  \* "Zed"
S_ZedPadded == <<" ", "Z", "e", "d">>  \* " Zed"
S_Blank == <<" ">>  \* " "
P_Intl == <<"+", "1", " ", "(", "4", "1", "5", ")", " ", "5", "5", "5", "-", "2", "6", "7", "1">>  \* "+1 (415) 555-2671"
P_Ten == <<"4", "1", "5", "5", "5", "5", "2", "6", "7", "1">>  \* "4155552671"
P_Eleven == <<"1", "4", "1", "5", "5", "5", "5", "2", "6", "7", "1">>  \* "14155552671"
P_Seven == <<"5", "5", "5", "-", "2", "6", "7", "1">>  \* "555-2671"
P_SevenDigits == <<"5", "5", "5", "2", "6", "7", "1">>  \* "5552671"
P_Eight == <<"1", "5", "5", "5", "2", "6", "7", "1">>  \* "15552671"
P_Four == <<"2", "6", "7", "1">>  \* "2671"
P_TollFreeDashed == <<"1", "-", "8", "0", "0", "-", "5", "5", "5", "-", "2", "6", "7", "1">>  \* "1-800-555-2671"
P_TollFreeTen == <<"8", "0", "0", "5", "5", "5", "2", "6", "7", "1">>  \* "8005552671"
P_TollFreeEleven == <<"1", "8", "0", "0", "5", "5", "5", "2", "6", "7", "1">>  \* "18005552671"
P_TollFreeUK == <<"+", "4", "4", " ", "8", "3", "3", "5", "5", "5", "2", "6", "7", "1">>  \* "+44 8335552671"
P_Short5 == <<"1", "2", "3", "4", "5">>  \* "12345"
P_Short6 == <<"2", "6", "2", "-", "9", "6", "6">>  \* "262-966"
P_UK == <<"4", "4", "2", "0", "7", "5", "5", "5", "2", "6", "7", "1">>  \* "442075552671"
P_Unknown == <<"6", "5", "0", "5", "5", "5", "0", "1", "9", "9">>  \* "6505550199"
P_Inner800 == <<"4", "1", "5", "8", "0", "0", "2", "6", "7", "1">>  \* "4158002671"
E_Al == <<"A", "l", "@", "x">>  \* "Al@x"
E_TollFreeDigits == <<"a", "8", "0", "0", "5", "5", "5", "2", "6", "7", "1", "@", "x">>  \* "a8005552671@x"
E_ShortDigits == <<"b", "1", "2", "3", "4", "5", "@", "x">>  \* "b12345@x"
E_DigitsOnly == <<"1", "2", "3", "4", "5", "@", "x">>  \* "12345@x"
J_Ten == <<"4", "1", "5", "5", "5", "5", "2", "6", "7", "1", "@", "s">>  \* "4155552671@s"
J_Eleven == <<"1", "4", "1", "5", "5", "5", "5", "2", "6", "7", "1", "@", "s">>  \* "14155552671@s"
J_UK == <<"4", "4", "2", "0", "7", "5", "5", "5", "2", "6", "7", "1", "@", "s">>  \* "442075552671@s"
J_TollFree == <<"1", "8", "0", "0", "5", "5", "5", "2", "6", "7", "1", "@", "s">>  \* "18005552671@s"
J_Short == <<"1", "2", "3", "4", "5", "@", "s">>  \* "12345@s"
J_Unknown == <<"6", "5", "0", "5", "5", "5", "0", "1", "9", "9", "@", "s">>  \* "6505550199@s"
J_NoAt == <<"Z", "e", "d">>  \* "Zed"

\* AddressBook rows: (owner name, number) and (owner name, e-mail address).
BookRows ==
    { [kind |-> "phone", name |-> S_Al, value |-> P_Intl],
      [kind |-> "phone", name |-> S_Bo, value |-> P_Ten],
      [kind |-> "phone", name |-> S_Bo, value |-> P_Seven],
      [kind |-> "phone", name |-> S_Cy, value |-> P_TollFreeDashed],
      [kind |-> "phone", name |-> S_Cy, value |-> P_Short5],
      [kind |-> "phone", name |-> S_Cy, value |-> P_UK],
      [kind |-> "email", name |-> S_Al, value |-> E_Al] }

\* The address books of at most n rows, in row order.
RECURSIVE BooksUpTo(_)
BooksUpTo(n) ==
    IF n = 0 THEN { <<>> }
    ELSE LET shorter == BooksUpTo(n - 1) IN
         shorter \cup { Append(b, r) : b \in { x \in shorter : Len(x) = n - 1 }, r \in BookRows }

\* ZWAPROFILEPUSHNAME tables: none, one push name, a padded and an empty push name.
PushBooks ==
    { <<>>,
      << [jid |-> J_Eleven, name |-> S_Zed] >>,
      << [jid |-> J_TollFree, name |-> S_ZedPadded], [jid |-> J_Short, name |-> S_Blank],
         [jid |-> J_Ten, name |-> <<>>] >> }

\* Raw identifiers handed to the resolvers and normalizers.
Idents ==
    { None, <<>>, P_Intl, P_Ten, P_Eleven, P_SevenDigits, P_Eight, P_Four,
      P_TollFreeTen, P_TollFreeEleven, P_TollFreeUK, P_Short5, P_Short6, P_UK,
      P_Unknown, P_Inner800, E_Al, E_TollFreeDigits, E_ShortDigits, E_DigitsOnly }

\* WhatsApp JIDs.
Jids == { None, J_Ten, J_Eleven, J_UK, J_TollFree, J_Short, J_Unknown, J_NoAt }

\* Platform-provided display names (ZPARTNERNAME): absent, empty, plain, padded, blank.
PartnerNames == { None, <<>>, S_Zed, S_ZedPadded, S_Blank }

NoCall == [fn |-> "none", ident |-> None, push |-> None, result |-> None]

\* d['stats'] before analyze_calls has run.
NoStats == [total |-> 0, outgoing |-> 0, incoming |-> 0, answered |-> 0, missed |-> 0,
            total_duration |-> 0]

----------------------------------------------------------------------------
(* The resolver specification: a directory is drawn, then resolvers are called *)

\* main of call_wrapped.py before its first step, and after its last.
CallsIdle ==
    /\ pc = "idle"
    /\ phone_rows = <<>> /\ wa_rows = <<>>
    /\ phone_calls = <<>> /\ whatsapp_calls = <<>>
    /\ all_calls = <<>>
    /\ stats = NoStats
    /\ phone_stats = <<>> /\ contact_stats = <<>>
    /\ next_key = 1

\* Seconds between the Unix epoch and the epoch of ZDATE.
MAC_EPOCH == 978307200

\* The seconds of a calendar day.
Day == 86400

\* The timestamps main hands to analyze_calls: the start of the year, its end, and the
\* midpoint between the two halves.
ts_start == MAC_EPOCH
ts_end == ts_start + 10 * Day
ts_jun == ts_start + 3 * Day

\* Spinner.thread = None
NoThread == 0

\* No database: neither file is there.
NoDb == [phone |-> [readable |-> FALSE, rows |-> <<>>],
         whatsapp |-> [readable |-> FALSE, rows |-> <<>>]]

\* No command of people_wrapped.py has run.
NoCommand == [name |-> "none", steps |-> <<>>]

\* LocalBrief.data = None
NoData == [kind |-> "none", load |-> 0]

\* No callback is scheduled: not the first refresh, no _update_loading, no render, no
\* automatic refresh.
NoTimers == [initial |-> FALSE, updates |-> 0, renders |-> <<>>, autos |-> <<>>]

\* No report yet, and no call of a part of the report yet.
NoReport == [made |-> FALSE]
NoMetric == [fn |-> "none"]

\* No report, no run before, the clock on the sixth day of the year.
MetricsIdle ==
    /\ report = NoReport
    /\ previous = NoReport
    /\ now = ts_start + 5 * Day
    /\ metric = NoMetric

\* main of call_wrapped.py has not checked access and its spinner has no thread.
MainIdle ==
    /\ has_phone = FALSE /\ has_whatsapp = FALSE
    /\ spinner = [spinning |-> FALSE, thread |-> NoThread]
    /\ alive = {}
    /\ db = NoDb

\* No people_wrapped.py command has run: no data directory, no report.
PeopleIdle ==
    /\ data_dir = [exists |-> FALSE, files |-> {}]
    /\ html = [built |-> FALSE, contacts |-> <<>>]
    /\ extracted = [done |-> FALSE, contacts |-> <<>>, top_n |-> 0]
    /\ command = NoCommand

\* LocalBrief is not running.
BriefIdle ==
    /\ app = [data |-> NoData, loading |-> FALSE, load_status |-> "idle"]
    /\ timers = NoTimers
    /\ loaders = {}
    /\ screen = [shows |-> "nothing", status |-> "", load |-> 0]
    /\ hours = 0
    /\ presses = 0
    /\ started = 0

ProgramsIdle == MainIdle /\ PeopleIdle /\ BriefIdle

InitResolve ==
    /\ book \in BooksUpTo(MaxBook)
    /\ pushRows \in PushBooks
    /\ call = NoCall
    /\ CallsIdle
    /\ MetricsIdle
    /\ ProgramsIdle

\* get_name(phone, contacts) of call_wrapped.py on the extract_contacts directory
CallGetName ==
    /\ call = NoCall
    /\ \E ident \in Idents :
           /\ call' = [fn |-> "get_name", ident |-> ident, push |-> None,
                    result |-> get_name(ident, extract_contacts(book))]
    /\ UNCHANGED <<book, pushRows>>
    /\ UNCHANGED programVars
    /\ UNCHANGED callVars
    /\ UNCHANGED metricVars

\* The name lookup of one analyze_whatsapp_calls row of call_wrapped.py
CallWhatsappCallName ==
    /\ call = NoCall
    /\ \E jid \in Jids :
           /\ call' = [fn |-> "whatsapp_call_name", ident |-> jid, push |-> None,
                    result |-> whatsapp_call_name(jid, load_wa_contacts(pushRows),
                                                  extract_contacts(book))]
    /\ UNCHANGED <<book, pushRows>>
    /\ UNCHANGED programVars
    /\ UNCHANGED callVars
    /\ UNCHANGED metricVars

\* normalize_phone(phone) of call_wrapped.py
CallNormalizePhone ==
    /\ call = NoCall
    /\ \E ident \in Idents :
           /\ call' = [fn |-> "normalize_phone", ident |-> ident, push |-> None,
                    result |-> normalize_phone(ident)]
    /\ UNCHANGED <<book, pushRows>>
    /\ UNCHANGED programVars
    /\ UNCHANGED callVars
    /\ UNCHANGED metricVars

\* normalize_phone(phone) of people_wrapped.py
CallPeopleNormalizePhone ==
    /\ call = NoCall
    /\ \E ident \in Idents :
           /\ call' = [fn |-> "people_normalize_phone", ident |-> ident, push |-> None,
                    result |-> people_normalize_phone(ident)]
    /\ UNCHANGED <<book, pushRows>>
    /\ UNCHANGED programVars
    /\ UNCHANGED callVars
    /\ UNCHANGED metricVars

\* get_name_imessage(handle, contacts) of combined_wrapped.py: handle is h.id, a string
CallGetNameImessage ==
    /\ call = NoCall
    /\ \E handle \in Idents \ {None} :
           /\ call' = [fn |-> "get_name_imessage", ident |-> handle, push |-> None,
                    result |-> get_name_imessage(handle, extract_imessage_contacts(book))]
    /\ UNCHANGED <<book, pushRows>>
    /\ UNCHANGED programVars
    /\ UNCHANGED callVars
    /\ UNCHANGED metricVars

\* get_name_whatsapp(jid, contacts) of combined_wrapped.py
CallGetNameWhatsapp ==
    /\ call = NoCall
    /\ \E jid \in Jids :
           /\ call' = [fn |-> "get_name_whatsapp", ident |-> jid, push |-> None,
                    result |-> get_name_whatsapp(jid, extract_whatsapp_contacts(pushRows))]
    /\ UNCHANGED <<book, pushRows>>
    /\ UNCHANGED programVars
    /\ UNCHANGED callVars
    /\ UNCHANGED metricVars

\* resolve_contact(identifier, contacts, whatsapp_name) of localbrief.py
CallResolveContact ==
    /\ call = NoCall
    /\ \E ident \in Idents, partner \in PartnerNames :
           /\ call' = [fn |-> "resolve_contact", ident |-> ident, push |-> partner,
                    result |-> resolve_contact(ident, load_contacts(book), partner)]
    /\ UNCHANGED <<book, pushRows>>
    /\ UNCHANGED programVars
    /\ UNCHANGED callVars
    /\ UNCHANGED metricVars

\* One call is made on each directory drawn: the functions are pure, so a second call
\* on the same directory would start from the same state as the first.
NextResolve ==
    \/ CallGetName
    \/ CallWhatsappCallName
    \/ CallNormalizePhone
    \/ CallPeopleNormalizePhone
    \/ CallGetNameImessage
    \/ CallGetNameWhatsapp
    \/ CallResolveContact

SpecResolve == InitResolve /\ [][NextResolve]_vars

----------------------------------------------------------------------------
(* call_wrapped.py: analyze_phone_calls, analyze_whatsapp_calls, analyze_calls *)

P_Home == <<"2", "1", "2", "5", "5", "5", "0", "1", "4", "2">>  \* "2125550142"

\* The AddressBook of the runs: Al under +1 415 555 2671, Bo under the same number
\* without country code and under a second number, Cy under a toll-free number.
CallBook ==
    << [kind |-> "phone", name |-> S_Al, value |-> P_Intl],
       [kind |-> "phone", name |-> S_Bo, value |-> P_Ten],
       [kind |-> "phone", name |-> S_Bo, value |-> P_Home],
       [kind |-> "phone", name |-> S_Cy, value |-> P_TollFreeDashed] >>

\* The push names of the runs: Zed for Al's number, Al for an internal id.
CallPush ==
    << [jid |-> J_Eleven, name |-> S_Zed],
       [jid |-> J_Short, name |-> S_Al] >>

\* ZDATE values of the rows.
Timestamps == {1, 2}

\* ZCALLRECORD rows (ZADDRESS, ZDURATION, ZDATE, ZORIGINATED, ZANSWERED, ZCALLTYPE):
\* an answered outgoing phone call or a missed incoming FaceTime video call.
PhoneRowSet ==
    { [phone |-> p, duration |-> k.duration, ts |-> t, originated |-> k.originated,
       answered |-> k.answered, call_type |-> k.call_type] :
        p \in {P_Intl, P_Ten, P_Home, P_Unknown},
        t \in Timestamps,
        k \in { [duration |-> 60, originated |-> 1, answered |-> 1, call_type |-> 1],
                [duration |-> 0, originated |-> 0, answered |-> 0, call_type |-> 16] } }

\* ZWACDCALLEVENT rows joined with their participant (ZDURATION, ZDATE, ZJIDSTRING).
WhatsappRowSet ==
    { [jid |-> k.jid, duration |-> k.duration, ts |-> t] :
        t \in Timestamps,
        k \in { [jid |-> J_Eleven, duration |-> 30], [jid |-> J_Ten, duration |-> 0],
                [jid |-> J_Short, duration |-> 30], [jid |-> J_TollFree, duration |-> 30] } }

\* ORDER BY ZDATE: a row may follow the rows already iterated over.
InDateOrder(rows, row) == IF rows = <<>> THEN TRUE ELSE rows[Len(rows)].ts <= row.ts

\* NULL in a numeric column of a row, None once the row is unpacked: a value no
\* duration and no date takes.
NULL == -1

\* x or 0
OrZero(x) == IF x = NULL THEN 0 ELSE x

\* The call analyze_phone_calls appends for a row whose number resolved to name.
phone_call(row, name) ==
    [name |-> name,
     phone |-> normalize_phone(row.phone),
     duration |-> OrZero(row.duration),
     timestamp |-> row.ts + MAC_EPOCH,
     outgoing |-> row.originated = 1,
     answered |-> row.answered = 1,
     platform |-> IF row.call_type \in {8, 16} THEN "FaceTime" ELSE "Phone",
     is_video |-> row.call_type = 16]

\* The call analyze_whatsapp_calls appends for a row whose JID resolved to name.
whatsapp_call(row, name) ==
    [name |-> name,
     phone |-> normalize_phone(IF Truthy(row.jid) THEN BeforeAt(row.jid) ELSE None),
     duration |-> OrZero(row.duration),
     timestamp |-> row.ts + MAC_EPOCH,
     outgoing |-> TRUE,
     answered |-> OrZero(row.duration) > 0,
     platform |-> "WhatsApp",
     is_video |-> FALSE]

\* list.sort(key=timestamp): stable, equal timestamps keep their order.  A call goes
\* behind the calls of smaller timestamp and the earlier calls of the same timestamp.
SortByTimestamp(calls) ==
    LET n == Len(calls)
        place == SubSeq([i \in 1..n |->
                           Cardinality({ j \in 1..n :
                               \/ calls[j].timestamp < calls[i].timestamp
                               \/ calls[j].timestamp = calls[i].timestamp /\ j < i }) + 1],
                        1, n)
        sorted == [p \in 1..n |-> calls[CHOOSE i \in 1..n : place[i] = p]]
    IN SubSeq(sorted, 1, n)

\* The distinct values of a sequence in the order they first come: the order of the
\* keys of a dict filled in a loop over the sequence.
FirstSeen(values) ==
    LET firsts == { i \in 1..Len(values) : \A j \in 1..(i - 1) : values[j] # values[i] }
        seen == [p \in 1..Cardinality(firsts) |->
                    values[CHOOSE i \in firsts : Cardinality({ j \in firsts : j < i }) = p - 1]]
    IN SubSeq(seen, 1, Cardinality(firsts))

\* sum(c['duration'] for c in calls), one half of the calls after the other
RECURSIVE SumDuration(_)
SumDuration(calls) ==
    IF calls = <<>> THEN 0
    ELSE IF Len(calls) = 1 THEN calls[1].duration
    ELSE LET half == Len(calls) \div 2
         IN SumDuration(SubSeq(calls, 1, half))
            + SumDuration(SubSeq(calls, half + 1, Len(calls)))

\* d['stats'] of analyze_calls
basic_stats(calls) ==
    LET total == Len(calls)
        outgoing == Cardinality({ i \in 1..Len(calls) : calls[i].outgoing })
        answered == Cardinality({ i \in 1..Len(calls) : calls[i].answered })
    IN [total |-> total, outgoing |-> outgoing, incoming |-> total - outgoing,
        answered |-> answered, missed |-> total - answered,
        total_duration |-> SumDuration(calls)]

\* The phone_stats key of a call: the last 10 digits of its phone when it has at least
\* 7 digits, else "name:" and its name.
phone_key(c) ==
    LET digits == StripNonDigits(c.phone)
        key == IF Truthy(c.phone) /\ Len(digits) >= 7 THEN Suffix(digits, 10) ELSE None
    IN IF Truthy(key) THEN key ELSE <<"n", "a", "m", "e", ":">> \o c.name

\* The tally loop of analyze_calls over all_calls: phone_stats has the keys of the
\* calls in the order they first come, and under a key the counts, the duration, the
\* platforms and the names of the calls of the key.
tally(calls) ==
    LET keys == FirstSeen([i \in 1..Len(calls) |-> phone_key(calls[i])])
    IN [p \in 1..Len(keys) |->
           LET mine == SelectSeq(calls, LAMBDA c : phone_key(c) = keys[p])
           IN [key |-> keys[p],
               count |-> Len(mine),
               duration |-> SumDuration(mine),
               outgoing |-> Len(SelectSeq(mine, LAMBDA c : c.outgoing)),
               incoming |-> Len(SelectSeq(mine, LAMBDA c : ~c.outgoing)),
               answered |-> Len(SelectSeq(mine, LAMBDA c : c.answered)),
               missed |-> Len(SelectSeq(mine, LAMBDA c : ~c.answered)),
               platforms |-> { mine[i].platform : i \in 1..Len(mine) },
               names |-> { mine[i].name : i \in 1..Len(mine) }]]

\* A variant of best_names that takes any of the names seen.
best_names_any(names) == names

\* The values max(names, key=len) can return: max keeps the first longest name it
\* meets, and the iteration order of a set of strings changes from run to run.
best_names(names) == { n \in names : \A m \in names : Len(m) <= Len(n) }

\* contact_stats[best_name] = stats: a new name is added at the end, a name already
\* there keeps its place and gets the new value.
store_profile(cstats, best_name, tallied) ==
    LET profile == [name |-> best_name, key |-> tallied.key, count |-> tallied.count,
                    duration |-> tallied.duration, outgoing |-> tallied.outgoing,
                    incoming |-> tallied.incoming, answered |-> tallied.answered,
                    missed |-> tallied.missed, platforms |-> tallied.platforms]
    IN IF \E i \in 1..Len(cstats) : cstats[i].name = best_name
       THEN [cstats EXCEPT ![CHOOSE i \in 1..Len(cstats) : cstats[i].name = best_name] = profile]
       ELSE Append(cstats, profile)

----------------------------------------------------------------------------
(* call_wrapped.py: the report analyze_calls builds from all_calls and contact_stats *)

\* A value that may be None: no element for None, else the value as the one element.
Nothing == <<>>
Some(x) == <<x>>

\* items[:n]
Take(items, n) == SubSeq(items, 1, IF Len(items) < n THEN Len(items) ELSE n)

\* sorted(items, key=..., reverse=True), for items given with their key: the sort is
\* stable, so items of equal key keep the order they came in.
RECURSIVE SortDescending(_)
SortDescending(items) ==
    IF items = <<>> THEN <<>>
    ELSE LET n == Len(items)
             it == items[n]
             sorted == SortDescending(SubSeq(items, 1, n - 1))
             k == Cardinality({ i \in 1..Len(sorted) : sorted[i].key >= it.key })
         IN SubSeq(sorted, 1, k) \o <<it>> \o SubSeq(sorted, k + 1, Len(sorted))

\* The items of a sequence of (key, item) pairs.
Items(keyed) == [i \in 1..Len(keyed) |-> keyed[i].item]

\* max(items, key=...): the first of the items with the largest key; Nothing of none.
FirstMax(keyed) ==
    IF keyed = <<>> THEN Nothing
    ELSE LET i == CHOOSE i \in 1..Len(keyed) :
                     /\ \A j \in 1..Len(keyed) : keyed[j].key <= keyed[i].key
                     /\ \A j \in 1..(i - 1) : keyed[j].key < keyed[i].key
         IN Some(keyed[i].item)

\* A variant of top_by that sorts ascending.
top_by_ascending(profiles, field, n) ==
    LET keyed == [i \in 1..Len(profiles) |->
                     [key |-> 0 - profiles[i][field], item |-> profiles[i]]]
    IN Items(Take(SortDescending(keyed), n))

\* sorted(contact_stats.items(), key=lambda x: x[1][field], reverse=True)[:n]
top_by(profiles, field, n) ==
    LET keyed == [i \in 1..Len(profiles) |->
                     [key |-> profiles[i][field], item |-> profiles[i]]]
    IN Items(Take(SortDescending(keyed), n))

\* d['top_count'] and d['top_duration']
top_count(cstats) == top_by(cstats, "count", 10)
top_duration(cstats) == top_by(cstats, "duration", 10)

\* max(all_calls, key=duration), None without calls.
longest_call(calls) ==
    FirstMax([i \in 1..Len(calls) |-> [key |-> calls[i].duration, item |-> calls[i]]])

\* all_calls[0], None without calls.
first_call(calls) == IF calls = <<>> THEN Nothing ELSE Some(calls[1])

\* A defaultdict(int) counting the calls of a list by name: names in the order they
\* first come.
count_by_name(calls) ==
    LET names == FirstSeen([i \in 1..Len(calls) |-> calls[i].name])
    IN [p \in 1..Len(names) |->
           [name |-> names[p],
            n |-> Cardinality({ i \in 1..Len(calls) : calls[i].name = names[p] })]]

\* sorted(counts.items(), key=lambda x: x[1], reverse=True)[:5]
ranked(counted) ==
    Items(Take(SortDescending([i \in 1..Len(counted) |->
                                  [key |-> counted[i].n, item |-> counted[i]]]), 5))

\* d['missed_kings']: the inbound calls not answered, by name.
missed_kings(calls) ==
    ranked(count_by_name(SelectSeq(calls, LAMBDA c : ~c.answered /\ ~c.outgoing)))

\* d['biggest_fans']: the inbound calls, by name.
biggest_fans(calls) ==
    ranked(count_by_name(SelectSeq(calls, LAMBDA c : ~c.outgoing)))

\* d['h1_h2']: the calls before ts_jun and the others.
h1_h2(calls, jun) ==
    [h1 |-> Cardinality({ i \in 1..Len(calls) : calls[i].timestamp < jun }),
     h2 |-> Cardinality({ i \in 1..Len(calls) : calls[i].timestamp >= jun })]

\* contact_h1_h2: per name, the calls before ts_jun and the others, names in the order
\* they first come.
contact_h1_h2(calls, jun) ==
    LET names == FirstSeen([i \in 1..Len(calls) |-> calls[i].name])
    IN [p \in 1..Len(names) |->
           [name |-> names[p],
            h1 |-> Cardinality({ i \in 1..Len(calls) :
                                   calls[i].name = names[p] /\ calls[i].timestamp < jun }),
            h2 |-> Cardinality({ i \in 1..Len(calls) :
                                   calls[i].name = names[p] /\ calls[i].timestamp >= jun })]]

\* A variant of is_heating_up without the floor on h1.
is_heating_up_no_floor(s) == 2 * s.h2 > 3 * s.h1

\* stats['h1'] >= 3 and stats['h2'] > stats['h1'] * 1.5
is_heating_up(s) == s.h1 >= 3 /\ 2 * s.h2 > 3 * s.h1

\* A variant of is_cooling_down with the comparison of h2 turned round.
is_cooling_down_flipped(s) == s.h1 >= 5 /\ 2 * s.h2 > s.h1

\* A variant of is_cooling_down that takes h2 up to half of h1.
is_cooling_down_or_half(s) == s.h1 >= 5 /\ 2 * s.h2 <= s.h1

\* stats['h1'] >= 5 and stats['h2'] < stats['h1'] * 0.5
is_cooling_down(s) == s.h1 >= 5 /\ 2 * s.h2 < s.h1

\* d['heating_up']: sorted by h2 - h1, largest first, the first 5.
heating_up(calls, jun) ==
    LET hot == SelectSeq(contact_h1_h2(calls, jun), is_heating_up)
    IN Items(Take(SortDescending([i \in 1..Len(hot) |->
                     [key |-> hot[i].h2 - hot[i].h1, item |-> hot[i]]]), 5))

\* d['cooling_down']: sorted by h1 - h2, largest first, the first 5.
cooling_down(calls, jun) ==
    LET cold == SelectSeq(contact_h1_h2(calls, jun), is_cooling_down)
    IN Items(Take(SortDescending([i \in 1..Len(cold) |->
                     [key |-> cold[i].h1 - cold[i].h2, item |-> cold[i]]]), 5))

\* The calendar day of datetime.fromtimestamp(ts), counted from 1970-01-01, with local
\* time taken as UTC.
DateOf(ts) == ts \div Day

\* datetime.fromtimestamp(ts).weekday(): 0 is Monday; 1970-01-01 was a Thursday.
WeekdayOf(ts) == (DateOf(ts) + 3) % 7

\* sorted(set(...)) of dates.
RECURSIVE SortedDates(_)
SortedDates(dates) ==
    IF dates = {} THEN <<>>
    ELSE LET first == CHOOSE x \in dates : \A y \in dates : x <= y
         IN <<first>> \o SortedDates(dates \ {first})

\* The sorted distinct dates of the calls under a name.
person_dates(calls, name) ==
    SortedDates({ DateOf(calls[i].timestamp) : i \in { j \in 1..Len(calls) : calls[j].name = name } })

\* The scan for the longest run of consecutive dates, from index i on.
RECURSIVE scan_streak(_, _, _, _)
scan_streak(dates, i, current_streak, max_streak) ==
    IF i > Len(dates) THEN max_streak
    ELSE IF dates[i] - dates[i - 1] = 1
         THEN scan_streak(dates, i + 1, current_streak + 1,
                          IF current_streak + 1 > max_streak
                          THEN current_streak + 1 ELSE max_streak)
         ELSE scan_streak(dates, i + 1, 1, max_streak)

\* A variant of keeps_streak that keeps runs of 2.
keeps_streak_of_two(dates) == Len(dates) >= 2 /\ scan_streak(dates, 2, 1, 1) >= 2

\* A contact enters streaks with at least 2 dates and a longest run of at least 3.
keeps_streak(dates) == Len(dates) >= 2 /\ scan_streak(dates, 2, 1, 1) >= 3

\* streaks: per name of contact_stats, in its order, the longest run when it is kept.
RECURSIVE streaks(_, _)
streaks(calls, cstats) ==
    IF cstats = <<>> THEN <<>>
    ELSE LET n == Len(cstats)
             name == cstats[n].name
             dates == person_dates(calls, name)
             before == streaks(calls, SubSeq(cstats, 1, n - 1))
         IN IF keeps_streak(dates)
            THEN Append(before, [name |-> name, streak |-> scan_streak(dates, 2, 1, 1)])
            ELSE before

\* d['longest_streak']: max(streaks.items(), key=lambda x: x[1]), None without streaks.
longest_streak(calls, cstats) ==
    LET kept == streaks(calls, cstats)
    IN FirstMax([i \in 1..Len(kept) |-> [key |-> kept[i].streak, item |-> kept[i]]])

\* d['weekday_weekend']
weekday_weekend(calls) ==
    LET weekday == Cardinality({ i \in 1..Len(calls) : WeekdayOf(calls[i].timestamp) < 5 })
    IN [weekday |-> weekday, weekend |-> Len(calls) - weekday]

\* A variant of later_calls that takes the calls at the same timestamp as later.
later_calls_or_same(calls, c) ==
    { calls[i].timestamp : i \in { j \in 1..Len(calls) :
          calls[j].outgoing /\ calls[j].name = c.name /\ calls[j].timestamp >= c.timestamp } }

\* later_calls: the timestamps of the outgoing calls to the name of c after c.
later_calls(calls, c) ==
    { calls[i].timestamp : i \in { j \in 1..Len(calls) :
          calls[j].outgoing /\ calls[j].name = c.name /\ calls[j].timestamp > c.timestamp } }

\* The inbound calls not answered.
missed_calls(calls) == SelectSeq(calls, LAMBDA c : ~c.outgoing /\ ~c.answered)

\* d['ghosts']: the missed calls with no later call back, by name, largest first, the
\* first 5.
ghosts(calls) ==
    ranked(count_by_name(SelectSeq(missed_calls(calls),
                                   LAMBDA c : later_calls(calls, c) = {})))

\* min(later_calls)
Earliest(times) == CHOOSE t \in times : \A u \in times : t <= u

\* A variant of within_window with no window.
within_window_always(seconds) == TRUE

\* callback_time < 1440, for callback_time = seconds / 60
within_window(seconds) == seconds < 1440 * 60

\* callback_times, in seconds: for each missed call with a later call back, the time
\* to the earliest one, when it is within the window.
RECURSIVE callback_seconds(_, _)
callback_seconds(calls, missed) ==
    IF missed = <<>> THEN <<>>
    ELSE LET c == missed[1]
             later == later_calls(calls, c)
             rest == callback_seconds(calls, Tail(missed))
         IN IF later # {} /\ within_window(Earliest(later) - c.timestamp)
            THEN <<Earliest(later) - c.timestamp>> \o rest
            ELSE rest

\* sum of a sequence of numbers
RECURSIVE Sum(_)
Sum(numbers) == IF numbers = <<>> THEN 0 ELSE numbers[1] + Sum(Tail(numbers))

\* round(num / den) of Python 3: to the nearest integer, a half to the even one.
Round(num, den) ==
    LET q == num \div den
        r == num % den
    IN IF 2 * r < den THEN q
       ELSE IF 2 * r > den THEN q + 1
       ELSE IF q % 2 = 0 THEN q ELSE q + 1

\* d['avg_callback_time']: the mean of the callback times in minutes, rounded; None
\* without callback times.
avg_callback_time(calls) ==
    LET seconds == callback_seconds(calls, missed_calls(calls))
    IN IF seconds = <<>> THEN Nothing
       ELSE Some(Round(Sum(seconds), 60 * Len(seconds)))

\* max(n, 1)
AtLeastOne(n) == IF n < 1 THEN 1 ELSE n

\* A variant of personality with the rules of THE SCREENER and THE INITIATOR swapped.
personality_swapped(answered_duration, answered, total_calls, outgoing, missed, callback, weekend_calls, weekday_calls) ==
    IF answered_duration < 60 * AtLeastOne(answered) /\ total_calls > 200
        THEN "THE SPEED DIALER"
    ELSE IF answered_duration > 600 * AtLeastOne(answered) /\ total_calls > 50
        THEN "THE CHATTY CATHY"
    ELSE IF 10 * outgoing > 7 * AtLeastOne(total_calls) THEN "THE INITIATOR"
    ELSE IF 10 * missed > 4 * AtLeastOne(total_calls) THEN "THE SCREENER"
    ELSE IF 10 * outgoing < 3 * AtLeastOne(total_calls) THEN "THE POPULAR ONE"
    ELSE IF callback # Nothing /\ callback[1] # 0 /\ callback[1] < 10
        THEN "THE RESPONSIVE ONE"
    ELSE IF total_calls < 50 THEN "THE PHONE PHOBIC"
    ELSE IF 2 * weekend_calls > weekday_calls THEN "THE WEEKEND WARRIOR"
    ELSE "THE BALANCED CALLER"

\* d['personality'], its label: avg_duration is answered_duration / max(answered, 1),
\* outgoing_ratio is outgoing / max(total_calls, 1), miss_rate is
\* missed / max(total_calls, 1), callback is d['avg_callback_time'].
personality(answered_duration, answered, total_calls, outgoing, missed, callback, weekend_calls, weekday_calls) ==
    IF answered_duration < 60 * AtLeastOne(answered) /\ total_calls > 200
        THEN "THE SPEED DIALER"
    ELSE IF answered_duration > 600 * AtLeastOne(answered) /\ total_calls > 50
        THEN "THE CHATTY CATHY"
    ELSE IF 10 * missed > 4 * AtLeastOne(total_calls) THEN "THE SCREENER"
    ELSE IF 10 * outgoing > 7 * AtLeastOne(total_calls) THEN "THE INITIATOR"
    ELSE IF 10 * outgoing < 3 * AtLeastOne(total_calls) THEN "THE POPULAR ONE"
    ELSE IF callback # Nothing /\ callback[1] # 0 /\ callback[1] < 10
        THEN "THE RESPONSIVE ONE"
    ELSE IF total_calls < 50 THEN "THE PHONE PHOBIC"
    ELSE IF 2 * weekend_calls > weekday_calls THEN "THE WEEKEND WARRIOR"
    ELSE "THE BALANCED CALLER"

\* The personality of a list of calls.
personality_of(calls) ==
    LET answered_calls == SelectSeq(calls, LAMBDA c : c.answered)
        basic == basic_stats(calls)
        week == weekday_weekend(calls)
    IN personality(SumDuration(answered_calls), Len(answered_calls), basic.total,
                   basic.outgoing, basic.missed, avg_callback_time(calls),
                   week.weekend, week.weekday)

\* d['quiet_days']: the days from the start of the year to its end, or to today when
\* that is before the end, less the days with calls.
quiet_days(calls, start, end, clock) ==
    LET year_end == IF end < clock THEN end ELSE clock
        total_days == ((year_end - start) \div Day) + 1
        days_with_calls == Cardinality({ DateOf(calls[i].timestamp) : i \in 1..Len(calls) })
    IN total_days - days_with_calls

\* The dictionary d analyze_calls returns, for the parts modelled here.
make_report(calls, basic, cstats, start, end, jun, clock) ==
    [made |-> TRUE,
     stats |-> basic,
     top_count |-> top_count(cstats),
     top_duration |-> top_duration(cstats),
     longest_call |-> longest_call(calls),
     missed_kings |-> missed_kings(calls),
     h1_h2 |-> h1_h2(calls, jun),
     heating_up |-> heating_up(calls, jun),
     cooling_down |-> cooling_down(calls, jun),
     quiet_days |-> quiet_days(calls, start, end, clock),
     unique_contacts |-> Len(cstats),
     first_call |-> first_call(calls),
     biggest_fans |-> biggest_fans(calls),
     longest_streak |-> longest_streak(calls, cstats),
     weekday_weekend |-> weekday_weekend(calls),
     ghosts |-> ghosts(calls),
     avg_callback_time |-> avg_callback_time(calls),
     personality |-> personality_of(calls)]

----------------------------------------------------------------------------
(* call_wrapped.py: main *)

\* A variant of append_call that keeps the rows with no name.
append_call_unnamed(calls, name, c) == Append(calls, c)

\* if not name: continue, else calls.append(...)
append_call(calls, name, c) == IF ~Truthy(name) THEN calls ELSE Append(calls, c)

Init ==
    /\ book = CallBook
    /\ pushRows = CallPush
    /\ call = NoCall
    /\ pc = "phone"
    /\ phone_rows = <<>> /\ wa_rows = <<>>
    /\ phone_calls = <<>> /\ whatsapp_calls = <<>>
    /\ all_calls = <<>>
    /\ stats = NoStats
    /\ phone_stats = <<>> /\ contact_stats = <<>>
    /\ next_key = 1
    /\ MetricsIdle
    /\ ProgramsIdle

\* One turn of the loop of analyze_phone_calls: a row with no name is skipped.
AnalyzePhoneCallsRow ==
    /\ pc = "phone"
    /\ Len(phone_rows) + Len(wa_rows) < MaxRows
    /\ \E row \in PhoneRowSet :
          /\ InDateOrder(phone_rows, row)
          /\ phone_rows' = Append(phone_rows, row)
          /\ LET name == get_name(row.phone, extract_contacts(book)) IN
             phone_calls' = append_call(phone_calls, name, phone_call(row, name))
    /\ UNCHANGED <<pc, wa_rows, whatsapp_calls, all_calls, stats, phone_stats,
                   contact_stats, next_key>>
    /\ UNCHANGED resolveVars
    /\ UNCHANGED programVars
    /\ UNCHANGED metricVars

\* analyze_phone_calls returns its list.
AnalyzePhoneCallsReturn ==
    /\ pc = "phone"
    /\ pc' = "whatsapp"
    /\ UNCHANGED <<phone_rows, wa_rows, phone_calls, whatsapp_calls, all_calls, stats,
                   phone_stats, contact_stats, next_key>>
    /\ UNCHANGED resolveVars
    /\ UNCHANGED programVars
    /\ UNCHANGED metricVars

\* One turn of the loop of analyze_whatsapp_calls: a row with no name is skipped.
AnalyzeWhatsappCallsRow ==
    /\ pc = "whatsapp"
    /\ Len(phone_rows) + Len(wa_rows) < MaxRows
    /\ \E row \in WhatsappRowSet :
          /\ InDateOrder(wa_rows, row)
          /\ wa_rows' = Append(wa_rows, row)
          /\ LET name == whatsapp_call_name(row.jid, load_wa_contacts(pushRows),
                                            extract_contacts(book)) IN
             whatsapp_calls' = append_call(whatsapp_calls, name, whatsapp_call(row, name))
    /\ UNCHANGED <<pc, phone_rows, phone_calls, all_calls, stats, phone_stats,
                   contact_stats, next_key>>
    /\ UNCHANGED resolveVars
    /\ UNCHANGED programVars
    /\ UNCHANGED metricVars

\* analyze_whatsapp_calls returns its list.
AnalyzeWhatsappCallsReturn ==
    /\ pc = "whatsapp"
    /\ pc' = "analyze"
    /\ UNCHANGED <<phone_rows, wa_rows, phone_calls, whatsapp_calls, all_calls, stats,
                   phone_stats, contact_stats, next_key>>
    /\ UNCHANGED resolveVars
    /\ UNCHANGED programVars
    /\ UNCHANGED metricVars

\* analyze_calls up to the end of its tally loop: the sorted list, d['stats'] and
\* phone_stats.
AnalyzeCallsTally ==
    /\ pc = "analyze"
    /\ all_calls' = SortByTimestamp(phone_calls \o whatsapp_calls)
    /\ stats' = basic_stats(all_calls')
    /\ phone_stats' = tally(all_calls')
    /\ contact_stats' = <<>>
    /\ next_key' = 1
    /\ pc' = IF phone_stats' = <<>> THEN "report" ELSE "convert"
    /\ UNCHANGED <<phone_rows, wa_rows, phone_calls, whatsapp_calls>>
    /\ UNCHANGED resolveVars
    /\ UNCHANGED programVars
    /\ UNCHANGED metricVars

\* One turn of the loop that turns phone_stats into contact_stats: the tally of the
\* key is stored under its best name and loses its names.
AnalyzeCallsConvert ==
    /\ pc = "convert"
    /\ next_key <= Len(phone_stats)
    /\ \E best_name \in best_names(phone_stats[next_key].names) :
          contact_stats' = store_profile(contact_stats, best_name, phone_stats[next_key])
    /\ phone_stats' = [phone_stats EXCEPT ![next_key].names = {}]
    /\ next_key' = next_key + 1
    /\ pc' = IF next_key = Len(phone_stats) THEN "report" ELSE "convert"
    /\ UNCHANGED <<phone_rows, wa_rows, phone_calls, whatsapp_calls, all_calls, stats>>
    /\ UNCHANGED resolveVars
    /\ UNCHANGED programVars
    /\ UNCHANGED metricVars

\* analyze_calls from the top lists to its return: the report.
AnalyzeCallsReport ==
    /\ pc = "report"
    /\ report' = make_report(all_calls, stats, contact_stats, ts_start, ts_end, ts_jun, now)
    /\ pc' = "done"
    /\ UNCHANGED <<phone_rows, wa_rows, phone_calls, whatsapp_calls, all_calls, stats,
                   phone_stats, contact_stats, next_key>>
    /\ UNCHANGED <<previous, now, metric>>
    /\ UNCHANGED resolveVars
    /\ UNCHANGED programVars

Next ==
    \/ AnalyzePhoneCallsRow
    \/ AnalyzePhoneCallsReturn
    \/ AnalyzeWhatsappCallsRow
    \/ AnalyzeWhatsappCallsReturn
    \/ AnalyzeCallsTally
    \/ AnalyzeCallsConvert
    \/ AnalyzeCallsReport

Spec == Init /\ [][Next]_vars

----------------------------------------------------------------------------
(* analyze_calls on lists of calls, run twice *)

S_Dee == <<"D", "e", "e">>
S_Eve == <<"E", "v", "e">>

\* A call as analyze_phone_calls appends it: answered and outgoing for 60 seconds, or
\* inbound and missed.
mk_call(name, phone, timestamp, kind) ==
    [name |-> name,
     phone |-> phone,
     duration |-> IF kind = "called" THEN 60 ELSE 0,
     timestamp |-> timestamp,
     outgoing |-> kind = "called",
     answered |-> kind = "called",
     platform |-> "Phone",
     is_video |-> FALSE]

\* Calls of Al and of Bo, who share a number: 100 and 700 seconds into the first day,
\* and 70 seconds into the second and the third.
EventSet ==
    { mk_call(name, P_Ten, ts_start + offset, kind) :
        name \in {S_Al, S_Bo},
        offset \in {100, 700, Day + 70, 2 * Day + 70},
        kind \in {"called", "missed"} }

\* The lists of up to n calls of EventSet in the order of their timestamps.
RECURSIVE ShortLists(_)
ShortLists(n) ==
    IF n = 0 THEN {<<>>}
    ELSE LET shorter == ShortLists(n - 1)
         IN shorter \cup
            { Append(l, e) : l \in { k \in shorter : Len(k) = n - 1 },
                             e \in EventSet }

\* The lists of ShortLists whose timestamps do not decrease.
InTimeOrder(calls) ==
    \A i \in 1..(Len(calls) - 1) : calls[i].timestamp <= calls[i + 1].timestamp

\* n times the same call.
Repeat(c, n) == [i \in 1..n |-> c]

\* The calls of contacts given with their counts: h1 calls each in the first half, then
\* h2 calls each at ts_jun, the first moment of the second half.
RECURSIVE HalfCalls(_, _)
HalfCalls(contacts, half) ==
    IF contacts = <<>> THEN <<>>
    ELSE LET c == contacts[1]
         IN Repeat(mk_call(c.name, None,
                           IF half = "h1" THEN ts_start + 100 ELSE ts_jun, "called"),
                   c[half])
            \o HalfCalls(Tail(contacts), half)

HalfList(contacts) == HalfCalls(contacts, "h1") \o HalfCalls(contacts, "h2")

\* Counts of the two halves around the thresholds of the trend lists.
HalfCounts ==
    { [h1 |-> 0, h2 |-> 0], [h1 |-> 2, h2 |-> 10], [h1 |-> 3, h2 |-> 4],
      [h1 |-> 3, h2 |-> 5], [h1 |-> 4, h2 |-> 6], [h1 |-> 4, h2 |-> 7],
      [h1 |-> 5, h2 |-> 2], [h1 |-> 5, h2 |-> 3], [h1 |-> 6, h2 |-> 3],
      [h1 |-> 10, h2 |-> 3], [h1 |-> 20, h2 |-> 35] }

\* Two contacts, each with counts of HalfCounts.
TrendLists ==
    { HalfList(<< [name |-> S_Al, h1 |-> a.h1, h2 |-> a.h2],
                  [name |-> S_Bo, h1 |-> b.h1, h2 |-> b.h2] >>) :
        a \in HalfCounts, b \in HalfCounts }

\* Six contacts, each heating up by 2 or by 3 or cooling down by 3.
ManyCounts == { [h1 |-> 3, h2 |-> 5], [h1 |-> 3, h2 |-> 6], [h1 |-> 5, h2 |-> 2] }
FewCounts == { [h1 |-> 3, h2 |-> 5], [h1 |-> 5, h2 |-> 2] }

CrowdLists ==
    { HalfList(<< [name |-> S_Al, h1 |-> a.h1, h2 |-> a.h2],
                  [name |-> S_Bo, h1 |-> b.h1, h2 |-> b.h2],
                  [name |-> S_Cy, h1 |-> c.h1, h2 |-> c.h2],
                  [name |-> S_Zed, h1 |-> d.h1, h2 |-> d.h2],
                  [name |-> S_Dee, h1 |-> e.h1, h2 |-> e.h2],
                  [name |-> S_Eve, h1 |-> f.h1, h2 |-> f.h2] >>) :
        a \in ManyCounts, b \in ManyCounts, c \in ManyCounts,
        d \in FewCounts, e \in FewCounts, f \in FewCounts }

\* Sets of days of the year with a call of a contact.
DateSets ==
    { {}, {0, 1}, {0, 1, 2}, {0, 2, 4}, {1, 2, 3, 4}, {0, 1, 2, 4, 5, 6} }

\* One call of a contact on each of the days, at an offset into the day.
RECURSIVE DayCalls(_, _, _, _)
DayCalls(name, phone, days, offset) ==
    IF days = <<>> THEN <<>>
    ELSE <<mk_call(name, phone, ts_start + days[1] * Day + offset, "called")>>
         \o DayCalls(name, phone, Tail(days), offset)

\* Al and Bo, with a number each, call on days of DateSets; one of them is the
\* earlier on a day they share.
StreakLists ==
    { DayCalls(S_Al, P_Ten, SortedDates(a), IF first = "Al" THEN 100 ELSE 700)
      \o DayCalls(S_Bo, P_Home, SortedDates(b), IF first = "Al" THEN 700 ELSE 100) :
        a \in DateSets, b \in DateSets, first \in {"Al", "Bo"} }

\* The lists of calls analyze_calls is run on.
CallLists ==
    { l \in ShortLists(MaxEvents) : InTimeOrder(l) }
    \cup { SortByTimestamp(l) : l \in TrendLists \cup CrowdLists \cup StreakLists }

InitMetrics ==
    /\ book = CallBook
    /\ pushRows = CallPush
    /\ call = NoCall
    /\ pc = "analyze"
    /\ phone_rows = <<>> /\ wa_rows = <<>>
    /\ phone_calls \in CallLists
    /\ whatsapp_calls = <<>>
    /\ all_calls = <<>>
    /\ stats = NoStats
    /\ phone_stats = <<>> /\ contact_stats = <<>>
    /\ next_key = 1
    /\ MetricsIdle
    /\ ProgramsIdle

\* The program is run once more on the same call history, the same day or the next.
RunAgain ==
    /\ pc = "done"
    /\ previous = NoReport
    /\ previous' = report
    /\ report' = NoReport
    /\ now' \in {now, now + Day}
    /\ pc' = "analyze"
    /\ all_calls' = <<>>
    /\ stats' = NoStats
    /\ phone_stats' = <<>> /\ contact_stats' = <<>>
    /\ next_key' = 1
    /\ UNCHANGED <<phone_rows, wa_rows, phone_calls, whatsapp_calls, metric>>
    /\ UNCHANGED resolveVars
    /\ UNCHANGED programVars

NextMetrics ==
    \/ AnalyzeCallsTally
    \/ AnalyzeCallsConvert
    \/ AnalyzeCallsReport
    \/ RunAgain

SpecMetrics == InitMetrics /\ [][NextMetrics]_vars

----------------------------------------------------------------------------
(* The personality rules of analyze_calls and of merge_data on their own *)

\* d['personality'] of merge_data in combined_wrapped.py, its label: ratio is
\* sent / (received + 1).
merge_personality(hour, resp, sent, received, starter_pct) ==
    IF hour < 5 \/ hour > 22 THEN "NOCTURNAL MENACE"
    ELSE IF resp < 5 THEN "TERMINALLY ONLINE"
    ELSE IF resp > 120 THEN "TOO COOL TO REPLY"
    ELSE IF 2 * sent < received + 1 THEN "POPULAR (ALLEGEDLY)"
    ELSE IF sent > 2 * (received + 1) THEN "THE YAPPER"
    ELSE IF starter_pct > 65 THEN "CONVERSATION STARTER"
    ELSE IF starter_pct < 35 THEN "THE WAITER"
    ELSE "SUSPICIOUSLY NORMAL"

\* Totals of calls around the thresholds of the rules.
Totals == {0, 10, 49, 50, 51, 200, 201}

\* Tenths of the calls that are outgoing, that are missed, that fall on a weekend.
OutgoingTenths == {0, 2, 3, 5, 7, 8, 10}
MissedTenths == {0, 4, 5}
WeekendTenths == {0, 3, 4, 5}

\* Average durations of the answered calls, in seconds.
AverageDurations == {30, 60, 300, 600, 700}

\* Values of d['avg_callback_time'].
CallbackTimes == {Nothing, Some(0), Some(5), Some(10)}

\* The aggregates of a list of calls with these shares: what analyze_calls hands to
\* its personality rules.
Aggregates ==
    { [answered_duration |-> (total - (total * m) \div 10) * avg,
       answered |-> total - (total * m) \div 10,
       total_calls |-> total,
       outgoing |-> (total * o) \div 10,
       missed |-> (total * m) \div 10,
       callback |-> cb,
       weekend_calls |-> (total * w) \div 10,
       weekday_calls |-> total - (total * w) \div 10] :
        total \in Totals, m \in MissedTenths, o \in OutgoingTenths,
        w \in WeekendTenths, avg \in AverageDurations,
        cb \in CallbackTimes }

\* What merge_data hands to its personality rules: the peak hour, the response time
\* in minutes, the messages sent and received, the share of conversations started.
MergedAggregates ==
    { [hour |-> h, resp |-> r, sent |-> s[1], received |-> s[2], starter_pct |-> p] :
        h \in {0, 4, 5, 12, 22, 23},
        r \in {4, 5, 30, 120, 121},
        s \in {<<0, 0>>, <<1, 1>>, <<1, 2>>, <<3, 2>>, <<4, 1>>, <<5, 1>>},
        p \in {34, 35, 50, 65, 66} }

InitClassify ==
    /\ book = CallBook
    /\ pushRows = CallPush
    /\ call = NoCall
    /\ CallsIdle
    /\ MetricsIdle
    /\ ProgramsIdle

\* The personality rules of analyze_calls on aggregates of calls.
CallPersonality ==
    /\ metric = NoMetric
    /\ \E a \in Aggregates :
          metric' = [fn |-> "personality", args |-> a,
                     result |-> personality(a.answered_duration, a.answered, a.total_calls,
                                            a.outgoing, a.missed, a.callback,
                                            a.weekend_calls, a.weekday_calls)]
    /\ UNCHANGED <<report, previous, now>>
    /\ UNCHANGED callVars
    /\ UNCHANGED resolveVars
    /\ UNCHANGED programVars

\* The personality rules of merge_data on aggregates of messages.
CallMergePersonality ==
    /\ metric = NoMetric
    /\ \E a \in MergedAggregates :
          metric' = [fn |-> "merge_personality", args |-> a,
                     result |-> merge_personality(a.hour, a.resp, a.sent, a.received,
                                                  a.starter_pct)]
    /\ UNCHANGED <<report, previous, now>>
    /\ UNCHANGED callVars
    /\ UNCHANGED resolveVars
    /\ UNCHANGED programVars

NextClassify ==
    \/ CallPersonality
    \/ CallMergePersonality

SpecClassify == InitClassify /\ [][NextClassify]_vars

----------------------------------------------------------------------------
(* The heating up lists of analyze_calls and of analyze_imessage on their own *)

\* d['heating'] of analyze_imessage in combined_wrapped.py, for the groups of the
\* query given with their counts: HAVING h1 > 20 AND h2 > h1 * 1.5, ORDER BY
\* (h2 - h1) DESC, LIMIT 10.
imessage_heating(groups) ==
    LET hot == SelectSeq(groups, LAMBDA g : g.h1 > 20 /\ 2 * g.h2 > 3 * g.h1)
    IN Items(Take(SortDescending([i \in 1..Len(hot) |->
                     [key |-> hot[i].h2 - hot[i].h1, item |-> hot[i]]]), 10))

\* Counts of the two halves around the thresholds of analyze_imessage.
MessageCounts ==
    { [h1 |-> 3, h2 |-> 5], [h1 |-> 20, h2 |-> 35], [h1 |-> 21, h2 |-> 31],
      [h1 |-> 21, h2 |-> 32], [h1 |-> 40, h2 |-> 70] }

\* Three handles with counts of MessageCounts.
GroupsOfThree ==
    { << [id |-> P_Intl, h1 |-> a.h1, h2 |-> a.h2],
         [id |-> P_Ten, h1 |-> b.h1, h2 |-> b.h2],
         [id |-> P_Home, h1 |-> c.h1, h2 |-> c.h2] >> :
        a \in MessageCounts, b \in MessageCounts, c \in MessageCounts }

\* The groups of three with no two of the same h2 - h1: the query does not say in
\* which order rows of the same h2 - h1 come.
FewGroups ==
    { g \in GroupsOfThree :
        \A i \in 1..3 : \A j \in 1..3 : i # j => g[i].h2 - g[i].h1 # g[j].h2 - g[j].h1 }

\* The handles of the long lists of groups.
HandleLetters == <<"a", "b", "c", "d", "e", "f", "g", "h", "i", "j", "k", "l", "m", "n">>

\* The most groups of a long list.
MaxGroups == 11

\* The k-th group of a long list: each is heating up, each by more than the one before.
BusyGroup(k) == [id |-> <<HandleLetters[k], "@", "x">>, h1 |-> 20 + k, h2 |-> 37 + 3 * k]

\* The long lists: up to MaxGroups groups, the largest h2 - h1 last or first.
ManyGroups ==
    { [i \in 1..n |-> BusyGroup(i)] : n \in 0..MaxGroups }
    \cup { [i \in 1..n |-> BusyGroup(n + 1 - i)] : n \in 0..MaxGroups }

\* The lists of calls the heating up list of analyze_calls is computed on.
TrendCalls == { SortByTimestamp(l) : l \in TrendLists \cup CrowdLists }

InitTrend ==
    /\ book = CallBook
    /\ pushRows = CallPush
    /\ call = NoCall
    /\ CallsIdle
    /\ MetricsIdle
    /\ ProgramsIdle

\* The heating up list of analyze_calls.
CallHeatingUp ==
    /\ metric = NoMetric
    /\ \E calls \in TrendCalls :
          metric' = [fn |-> "heating_up", args |-> calls,
                     result |-> heating_up(calls, ts_jun)]
    /\ UNCHANGED <<report, previous, now>>
    /\ UNCHANGED callVars
    /\ UNCHANGED resolveVars
    /\ UNCHANGED programVars

\* The heating up list of analyze_imessage.
CallImessageHeating ==
    /\ metric = NoMetric
    /\ \E groups \in FewGroups \cup ManyGroups :
          metric' = [fn |-> "imessage_heating", args |-> groups,
                     result |-> imessage_heating(groups)]
    /\ UNCHANGED <<report, previous, now>>
    /\ UNCHANGED callVars
    /\ UNCHANGED resolveVars
    /\ UNCHANGED programVars

NextTrend ==
    \/ CallHeatingUp
    \/ CallImessageHeating

SpecTrend == InitTrend /\ [][NextTrend]_vars

----------------------------------------------------------------------------
(* The top lists of analyze_calls and of merge_data on their own *)

\* name_counts of merge_data in combined_wrapped.py: the names of the entries in the
\* order they first come, each with the entry kept for it.  An entry replaces the one
\* kept only with a larger total, so the first entry with the largest total is kept.
name_counts(top_combined) ==
    LET names == FirstSeen([i \in 1..Len(top_combined) |-> top_combined[i].name])
    IN [p \in 1..Len(names) |->
           LET named == SelectSeq(top_combined, LAMBDA e : e.name = names[p])
           IN FirstMax([i \in 1..Len(named) |-> [key |-> named[i].total, item |-> named[i]]])[1]]

\* d['top'] of merge_data: sorted(name_counts.values(), key=lambda x: -x['total'])[:10]
merge_top(top_combined) == top_by(name_counts(top_combined), "total", 10)

\* A profile of contact_stats of calls that were made and answered.
mk_profile(name, count, duration) ==
    [name |-> name, key |-> <<"n", "a", "m", "e", ":">> \o name, count |-> count,
     duration |-> duration, outgoing |-> count, incoming |-> 0, answered |-> count,
     missed |-> 0, platforms |-> {"Phone"}]

\* An entry of top_combined.
mk_entry(name, total, source) ==
    [name |-> name, total |-> total, sent |-> total, received |-> 0, source |-> source,
     handle |-> name \o <<"@", "x">>]

\* The most profiles of contact_stats.
MaxProfiles == 11

\* The counts and durations of a profile: the larger count has the smaller duration.
ProfileTotals == { [count |-> 1, duration |-> 60], [count |-> 2, duration |-> 30] }

\* The lists of up to n profiles, each of another name.
RECURSIVE ProfileLists(_)
ProfileLists(n) ==
    IF n = 0 THEN {<<>>}
    ELSE LET shorter == ProfileLists(n - 1)
         IN shorter \cup
            { Append(l, mk_profile(<<HandleLetters[n]>>, t.count, t.duration)) :
                l \in { k \in shorter : Len(k) = n - 1 }, t \in ProfileTotals }

\* Entries of two names from the two sources, and the lists of up to 3 of them.
EntrySet ==
    { mk_entry(name, total, source) :
        name \in {S_Al, S_Bo}, total \in {1, 2}, source \in {"imessage", "whatsapp"} }

EntryLists ==
    { <<a, b>> : a \in EntrySet, b \in EntrySet }
    \cup { <<a, b, c>> : a \in EntrySet, b \in EntrySet, c \in EntrySet }

\* The lists of entries of as many names as there are profiles.
LongEntryLists ==
    { [i \in 1..Len(l) |-> mk_entry(l[i].name, l[i].count, "imessage")] :
        l \in { k \in ProfileLists(MaxProfiles) : Len(k) >= MaxProfiles - 1 } }

InitTop ==
    /\ book = CallBook
    /\ pushRows = CallPush
    /\ call = NoCall
    /\ CallsIdle
    /\ MetricsIdle
    /\ ProgramsIdle

\* The top lists of analyze_calls.
CallTopLists ==
    /\ metric = NoMetric
    /\ \E profiles \in ProfileLists(MaxProfiles) :
          metric' = [fn |-> "top", args |-> profiles,
                     result |-> [top_count |-> top_count(profiles),
                                 top_duration |-> top_duration(profiles)]]
    /\ UNCHANGED <<report, previous, now>>
    /\ UNCHANGED callVars
    /\ UNCHANGED resolveVars
    /\ UNCHANGED programVars

\* The top list of merge_data.
CallMergeTop ==
    /\ metric = NoMetric
    /\ \E entries \in EntryLists \cup LongEntryLists :
          metric' = [fn |-> "merge_top", args |-> entries, result |-> merge_top(entries)]
    /\ UNCHANGED <<report, previous, now>>
    /\ UNCHANGED callVars
    /\ UNCHANGED resolveVars
    /\ UNCHANGED programVars

NextTop ==
    \/ CallTopLists
    \/ CallMergeTop

SpecTop == InitTop /\ [][NextTop]_vars

----------------------------------------------------------------------------
(* The peak hour and the peak day of analyze_calls on their own *)

\* datetime.fromtimestamp(ts).hour, with local time taken as UTC.
HourOf(ts) == (ts % Day) \div 3600

\* int(datetime.fromtimestamp(ts).strftime('%w')): 0 is Sunday; 1970-01-01 was a
\* Thursday.
WeekdayNumberOf(ts) == (DateOf(ts) + 4) % 7

\* days of analyze_calls
days == <<"Sunday", "Monday", "Tuesday", "Wednesday", "Thursday", "Friday", "Saturday">>

\* A defaultdict(int) counting the values of a sequence: its items, in the order the
\* values first come, each with its count as the key of max.
bucket_counts(values) ==
    LET seen == FirstSeen(values)
    IN [p \in 1..Len(seen) |->
           [key |-> Cardinality({ i \in 1..Len(values) : values[i] = seen[p] }),
            item |-> seen[p]]]

\* A variant of peak_of that scans the buckets from the lowest index up.
peak_of_lowest(values) ==
    LET counted == bucket_counts(values)
        top == { p \in 1..Len(counted) : \A q \in 1..Len(counted) : counted[q].key <= counted[p].key }
    IN IF top = {} THEN Nothing
       ELSE Some(CHOOSE b \in { counted[p].item : p \in top } :
                    \A c \in { counted[p].item : p \in top } : b <= c)

\* max(counts.items(), key=lambda x: x[1])[0]: the first item of the dict with the
\* largest count; Nothing for an empty dict.
peak_of(values) == FirstMax(bucket_counts(values))

\* d['peak_hour']: 12 without calls.
peak_hour(calls) ==
    LET peak == peak_of([i \in 1..Len(calls) |-> HourOf(calls[i].timestamp)])
    IN IF peak = Nothing THEN 12 ELSE peak[1]

\* d['peak_day']: 'Unknown' without calls.
peak_day(calls) ==
    LET peak == peak_of([i \in 1..Len(calls) |-> WeekdayNumberOf(calls[i].timestamp)])
    IN IF peak = Nothing THEN "Unknown" ELSE days[peak[1] + 1]

\* Most calls of a list the peaks are computed on.
MaxPeakCalls == 3

\* Calls at 9 and at 15 o'clock of the first four days, a Monday to a Thursday, and of
\* the seventh, a Sunday.
PeakEvents ==
    { mk_call(S_Al, P_Ten, ts_start + d * Day + h * 3600, "called") :
        d \in {0, 1, 2, 6}, h \in {9, 15} }

\* The lists of up to n calls of PeakEvents.
RECURSIVE PeakLists(_)
PeakLists(n) ==
    IF n = 0 THEN {<<>>}
    ELSE LET shorter == PeakLists(n - 1)
         IN shorter \cup
            { Append(l, e) : l \in { k \in shorter : Len(k) = n - 1 }, e \in PeakEvents }

InitPeak ==
    /\ book = CallBook
    /\ pushRows = CallPush
    /\ call = NoCall
    /\ CallsIdle
    /\ MetricsIdle
    /\ ProgramsIdle

\* The peak hour of analyze_calls, on all_calls: calls in the order of their timestamps.
CallPeakHour ==
    /\ metric = NoMetric
    /\ \E calls \in { l \in PeakLists(MaxPeakCalls) : InTimeOrder(l) } :
          metric' = [fn |-> "peak_hour", args |-> calls, result |-> peak_hour(calls)]
    /\ UNCHANGED <<report, previous, now>>
    /\ UNCHANGED callVars
    /\ UNCHANGED resolveVars
    /\ UNCHANGED programVars

\* The peak day of analyze_calls.
CallPeakDay ==
    /\ metric = NoMetric
    /\ \E calls \in { l \in PeakLists(MaxPeakCalls) : InTimeOrder(l) } :
          metric' = [fn |-> "peak_day", args |-> calls, result |-> peak_day(calls)]
    /\ UNCHANGED <<report, previous, now>>
    /\ UNCHANGED callVars
    /\ UNCHANGED resolveVars
    /\ UNCHANGED programVars

NextPeak ==
    \/ CallPeakHour
    \/ CallPeakDay

SpecPeak == InitPeak /\ [][NextPeak]_vars

----------------------------------------------------------------------------
(* call_wrapped.py: main, with check_access and the Spinner *)

\* Largest number of rows in a table of the databases main reads.
MaxTable == 2

\* ZCALLRECORD rows: a call of Bo, a row with no ZADDRESS, a missed FaceTime call
\* of Al with no ZDURATION, and a row with no ZDATE.
PhoneTableRows ==
    { [phone |-> P_Ten, duration |-> 60, ts |-> 1, originated |-> 1, answered |-> 1,
       call_type |-> 1],
      [phone |-> None, duration |-> 60, ts |-> 2, originated |-> 1, answered |-> 1,
       call_type |-> 1],
      [phone |-> P_Intl, duration |-> NULL, ts |-> 2, originated |-> 0, answered |-> 0,
       call_type |-> 16],
      [phone |-> P_Ten, duration |-> 60, ts |-> NULL, originated |-> 1, answered |-> 1,
       call_type |-> 1] }

\* ZWACDCALLEVENT rows joined with their participant: a call with Zed, a row with no
\* ZJIDSTRING, a call with no ZDURATION, and a row with no ZDATE.
WhatsappTableRows ==
    { [jid |-> J_Eleven, duration |-> 30, ts |-> 1],
      [jid |-> None, duration |-> 30, ts |-> 2],
      [jid |-> J_Ten, duration |-> NULL, ts |-> 2],
      [jid |-> J_Eleven, duration |-> 30, ts |-> NULL] }

\* The tables of up to n rows.
RECURSIVE TablesUpTo(_, _)
TablesUpTo(rows, n) ==
    IF n = 0 THEN { <<>> }
    ELSE LET shorter == TablesUpTo(rows, n - 1)
         IN shorter \cup { Append(t, r) : t \in shorter, r \in rows }

\* A database file: readable or not, and the rows of its table when it is.
Databases(rows) ==
    { [readable |-> FALSE, rows |-> <<>>] }
    \cup { [readable |-> TRUE, rows |-> t] : t \in TablesUpTo(rows, MaxTable) }

\* ORDER BY ZDATE: the rows by date, rows of one date in the order of the table.
OrderByDate(rows) ==
    LET n == Len(rows)
        place == SubSeq([i \in 1..n |->
                           Cardinality({ j \in 1..n :
                               \/ rows[j].ts < rows[i].ts
                               \/ rows[j].ts = rows[i].ts /\ j < i }) + 1],
                        1, n)
        sorted == [p \in 1..n |-> rows[CHOOSE i \in 1..n : place[i] = p]]
    IN SubSeq(sorted, 1, n)

\* A variant of the WHERE clause that selects the rows with no date as well.
in_range_or_null(row) ==
    row.ts = NULL \/ (row.ts + MAC_EPOCH > ts_start /\ row.ts + MAC_EPOCH < ts_end)

\* WHERE (ZDATE + MAC_EPOCH) > ts_start AND (ZDATE + MAC_EPOCH) < ts_end: a comparison
\* with NULL is not true, so a row with no date is not selected.
in_range(row) ==
    row.ts # NULL /\ row.ts + MAC_EPOCH > ts_start /\ row.ts + MAC_EPOCH < ts_end

\* 'timestamp': ts + MAC_EPOCH of a row that has a name and no date: None + int
\* raises TypeError.
no_date(name, row) == Truthy(name) /\ row.ts = NULL

\* The rows the query of analyze_phone_calls or analyze_whatsapp_calls returns.
query(table) == OrderByDate(SelectSeq(table, in_range))

\* A variant of the loop condition that leaves the loop before the last row.
more_rows_but_last(done, rows) == Len(done) + 1 < Len(rows)

\* for row in rows: there is a row the loop has not iterated over.
more_rows(done, rows) == Len(done) < Len(rows)

\* A variant of the test of check_access that gives up when one source is missing.
no_access_to_one(phone, whatsapp) == ~phone \/ ~whatsapp

\* if not has_phone and not has_whatsapp
no_access(phone, whatsapp) == ~phone /\ ~whatsapp

\* Spinner.start: the flag is set and a new thread runs spin.
SpinnerStart ==
    /\ spinner' = [spinning |-> TRUE, thread |-> spinner.thread + 1]
    /\ alive' = alive \cup {spinner.thread + 1}

\* Spinner.stop up to its join: the flag is cleared.
SpinnerStop ==
    /\ spinner' = [spinner EXCEPT !.spinning = FALSE]
    /\ UNCHANGED alive

\* The variables no step of main touches.
NotOfMain == <<book, pushRows, call, previous, now, metric, db, peopleVars, briefVars>>

InitMain ==
    /\ book = CallBook
    /\ pushRows = CallPush
    /\ call = NoCall
    /\ pc = "check_access"
    /\ phone_rows = <<>> /\ wa_rows = <<>>
    /\ phone_calls = <<>> /\ whatsapp_calls = <<>>
    /\ all_calls = <<>>
    /\ stats = NoStats
    /\ phone_stats = <<>> /\ contact_stats = <<>>
    /\ next_key = 1
    /\ MetricsIdle
    /\ has_phone = FALSE /\ has_whatsapp = FALSE
    /\ spinner = [spinning |-> FALSE, thread |-> NoThread]
    /\ alive = {}
    /\ db \in { [phone |-> p, whatsapp |-> w] :
                  p \in Databases(PhoneTableRows), w \in Databases(WhatsappTableRows) }
    /\ PeopleIdle
    /\ BriefIdle

\* check_access: a source is there when its file can be read; with no source the
\* run ends with sys.exit(1).
CheckAccess ==
    /\ pc = "check_access"
    /\ has_phone' = db.phone.readable
    /\ has_whatsapp' = db.whatsapp.readable
    /\ pc' = IF no_access(has_phone', has_whatsapp') THEN "exit" ELSE "main_phone"
    /\ UNCHANGED <<phone_rows, wa_rows, phone_calls, whatsapp_calls, all_calls, stats,
                   phone_stats, contact_stats, next_key, report, spinner, alive>>
    /\ UNCHANGED NotOfMain

\* if has_phone: spinner.start(...) and analyze_phone_calls runs its query
MainStartPhone ==
    /\ pc = "main_phone"
    /\ has_phone
    /\ SpinnerStart
    /\ pc' = "phone"
    /\ UNCHANGED <<phone_rows, wa_rows, phone_calls, whatsapp_calls, all_calls, stats,
                   phone_stats, contact_stats, next_key, report, has_phone, has_whatsapp>>
    /\ UNCHANGED NotOfMain

\* not has_phone: phone_calls stays the empty list
MainSkipPhone ==
    /\ pc = "main_phone"
    /\ ~has_phone
    /\ pc' = "main_whatsapp"
    /\ UNCHANGED <<phone_rows, wa_rows, phone_calls, whatsapp_calls, all_calls, stats,
                   phone_stats, contact_stats, next_key, report, has_phone, has_whatsapp,
                   spinner, alive>>
    /\ UNCHANGED NotOfMain

\* One turn of the loop of analyze_phone_calls over the rows of its query.
ReadPhoneRow ==
    /\ pc = "phone"
    /\ more_rows(phone_rows, query(db.phone.rows))
    /\ LET row == query(db.phone.rows)[Len(phone_rows) + 1]
           name == get_name(row.phone, extract_contacts(book))
       IN /\ phone_rows' = Append(phone_rows, row)
          /\ IF no_date(name, row)
             THEN pc' = "raised" /\ UNCHANGED phone_calls
             ELSE /\ phone_calls' = append_call(phone_calls, name, phone_call(row, name))
                  /\ UNCHANGED pc
    /\ UNCHANGED <<wa_rows, whatsapp_calls, all_calls, stats, phone_stats,
                   contact_stats, next_key, report, has_phone, has_whatsapp, spinner,
                   alive>>
    /\ UNCHANGED NotOfMain

\* analyze_phone_calls returns and spinner.stop(...) clears the flag.
MainStopPhone ==
    /\ pc = "phone"
    /\ ~more_rows(phone_rows, query(db.phone.rows))
    /\ SpinnerStop
    /\ pc' = "join_phone"
    /\ UNCHANGED <<phone_rows, wa_rows, phone_calls, whatsapp_calls, all_calls, stats,
                   phone_stats, contact_stats, next_key, report, has_phone, has_whatsapp>>
    /\ UNCHANGED NotOfMain

\* if has_whatsapp: spinner.start(...) and analyze_whatsapp_calls runs its query
MainStartWhatsapp ==
    /\ pc = "main_whatsapp"
    /\ has_whatsapp
    /\ SpinnerStart
    /\ pc' = "whatsapp"
    /\ UNCHANGED <<phone_rows, wa_rows, phone_calls, whatsapp_calls, all_calls, stats,
                   phone_stats, contact_stats, next_key, report, has_phone, has_whatsapp>>
    /\ UNCHANGED NotOfMain

\* not has_whatsapp: whatsapp_calls stays the empty list
MainSkipWhatsapp ==
    /\ pc = "main_whatsapp"
    /\ ~has_whatsapp
    /\ pc' = "main_analyze"
    /\ UNCHANGED <<phone_rows, wa_rows, phone_calls, whatsapp_calls, all_calls, stats,
                   phone_stats, contact_stats, next_key, report, has_phone, has_whatsapp,
                   spinner, alive>>
    /\ UNCHANGED NotOfMain

\* One turn of the loop of analyze_whatsapp_calls over the rows of its query.
ReadWhatsappRow ==
    /\ pc = "whatsapp"
    /\ more_rows(wa_rows, query(db.whatsapp.rows))
    /\ LET row == query(db.whatsapp.rows)[Len(wa_rows) + 1]
           name == whatsapp_call_name(row.jid, load_wa_contacts(pushRows),
                                      extract_contacts(book))
       IN /\ wa_rows' = Append(wa_rows, row)
          /\ IF no_date(name, row)
             THEN pc' = "raised" /\ UNCHANGED whatsapp_calls
             ELSE /\ whatsapp_calls' = append_call(whatsapp_calls, name,
                                                   whatsapp_call(row, name))
                  /\ UNCHANGED pc
    /\ UNCHANGED <<phone_rows, phone_calls, all_calls, stats, phone_stats,
                   contact_stats, next_key, report, has_phone, has_whatsapp, spinner,
                   alive>>
    /\ UNCHANGED NotOfMain

\* analyze_whatsapp_calls returns and spinner.stop(...) clears the flag.
MainStopWhatsapp ==
    /\ pc = "whatsapp"
    /\ ~more_rows(wa_rows, query(db.whatsapp.rows))
    /\ SpinnerStop
    /\ pc' = "join_whatsapp"
    /\ UNCHANGED <<phone_rows, wa_rows, phone_calls, whatsapp_calls, all_calls, stats,
                   phone_stats, contact_stats, next_key, report, has_phone, has_whatsapp>>
    /\ UNCHANGED NotOfMain

\* conn.execute(sql) of q_phone or q_whatsapp raises (the database is locked by the
\* application that writes it): the exception leaves main, no statement after it runs.
QueryRaises ==
    /\ \/ pc = "phone" /\ phone_rows = <<>>
       \/ pc = "whatsapp" /\ wa_rows = <<>>
    /\ pc' = "raised"
    /\ UNCHANGED <<phone_rows, wa_rows, phone_calls, whatsapp_calls, all_calls, stats,
                   phone_stats, contact_stats, next_key, report, has_phone, has_whatsapp,
                   spinner, alive>>
    /\ UNCHANGED NotOfMain

\* spinner.start("Crunching numbers...") and the call of analyze_calls
MainStartAnalyze ==
    /\ pc = "main_analyze"
    /\ SpinnerStart
    /\ pc' = "analyze"
    /\ UNCHANGED <<phone_rows, wa_rows, phone_calls, whatsapp_calls, all_calls, stats,
                   phone_stats, contact_stats, next_key, report, has_phone, has_whatsapp>>
    /\ UNCHANGED NotOfMain

\* analyze_calls has returned and spinner.stop(...) clears the flag.
MainStopAnalyze ==
    /\ pc = "done"
    /\ SpinnerStop
    /\ pc' = "join_analyze"
    /\ UNCHANGED <<phone_rows, wa_rows, phone_calls, whatsapp_calls, all_calls, stats,
                   phone_stats, contact_stats, next_key, report, has_phone, has_whatsapp>>
    /\ UNCHANGED NotOfMain

\* spinner.start("Building your wrapped...") and the call of gen_html
MainStartHtml ==
    /\ pc = "main_html"
    /\ SpinnerStart
    /\ pc' = "gen_html"
    /\ UNCHANGED <<phone_rows, wa_rows, phone_calls, whatsapp_calls, all_calls, stats,
                   phone_stats, contact_stats, next_key, report, has_phone, has_whatsapp>>
    /\ UNCHANGED NotOfMain

\* gen_html writes the file and returns, and spinner.stop(...) clears the flag.
GenHtml ==
    /\ pc = "gen_html"
    /\ SpinnerStop
    /\ pc' = "join_html"
    /\ UNCHANGED <<phone_rows, wa_rows, phone_calls, whatsapp_calls, all_calls, stats,
                   phone_stats, contact_stats, next_key, report, has_phone, has_whatsapp>>
    /\ UNCHANGED NotOfMain

\* open(path, 'w') of gen_html raises (the directory of --output is not there): the
\* exception leaves main, no statement after it runs.
GenHtmlRaises ==
    /\ pc = "gen_html"
    /\ pc' = "raised"
    /\ UNCHANGED <<phone_rows, wa_rows, phone_calls, whatsapp_calls, all_calls, stats,
                   phone_stats, contact_stats, next_key, report, has_phone, has_whatsapp,
                   spinner, alive>>
    /\ UNCHANGED NotOfMain

\* Where main goes on when the join of spinner.stop returns.
after_join(at) ==
    CASE at = "join_phone" -> "main_whatsapp"
      [] at = "join_whatsapp" -> "main_analyze"
      [] at = "join_analyze" -> "main_html"
      [] at = "join_html" -> "finished"

\* if self.thread: self.thread.join() returns once the thread has returned.
SpinnerJoin ==
    /\ pc \in {"join_phone", "join_whatsapp", "join_analyze", "join_html"}
    /\ spinner.thread = NoThread \/ spinner.thread \notin alive
    /\ pc' = after_join(pc)
    /\ UNCHANGED <<phone_rows, wa_rows, phone_calls, whatsapp_calls, all_calls, stats,
                   phone_stats, contact_stats, next_key, report, has_phone, has_whatsapp,
                   spinner, alive>>
    /\ UNCHANGED NotOfMain

\* One test of while self.spinning by a spin thread: it prints a frame and sleeps,
\* or it returns when the flag is cleared.
Spin ==
    /\ \E t \in alive :
          alive' = IF spinner.spinning THEN alive ELSE alive \ {t}
    /\ UNCHANGED <<pc, phone_rows, wa_rows, phone_calls, whatsapp_calls, all_calls, stats,
                   phone_stats, contact_stats, next_key, report, has_phone, has_whatsapp,
                   spinner>>
    /\ UNCHANGED NotOfMain

\* The steps of the main thread.
MainThread ==
    \/ CheckAccess
    \/ MainStartPhone
    \/ MainSkipPhone
    \/ ReadPhoneRow
    \/ MainStopPhone
    \/ MainStartWhatsapp
    \/ MainSkipWhatsapp
    \/ ReadWhatsappRow
    \/ MainStopWhatsapp
    \/ MainStartAnalyze
    \/ AnalyzeCallsTally
    \/ AnalyzeCallsConvert
    \/ AnalyzeCallsReport
    \/ MainStopAnalyze
    \/ MainStartHtml
    \/ GenHtml
    \/ SpinnerJoin

NextMain ==
    \/ MainThread
    \/ QueryRaises
    \/ GenHtmlRaises
    \/ Spin

SpecMain == InitMain /\ [][NextMain]_vars

\* The threads get their turns: the main thread goes on while it can, a spin thread
\* tests its flag again.  Nothing makes a query or the writing of the file fail.
SpecMainLive == SpecMain /\ WF_vars(MainThread) /\ WF_vars(Spin)

----------------------------------------------------------------------------
(* people_wrapped.py: the commands extract, summarize, build, status and run *)

\* Largest value of --top.
MaxTop == 2

S_ZedDot == <<" ", "Z", "e", "d", ".">>  \* " Zed."
S_Json == <<".", "j", "s", "o", "n">>  \* ".json"

\* The characters of the file names, in the order of their code points.
CharOrder ==
    <<"-", ".", "0", "1", "2", "3", "4", "5", "6", "7", "8", "9", "A", "B", "C", "Z", "_",
      "a", "b", "c", "d", "e", "j", "l", "n", "o", "s", "x", "y", "z">>

Ord(c) == CHOOSE i \in 1..Len(CharOrder) : CharOrder[i] = c

\* s < t for two strings
RECURSIVE StrLess(_, _)
StrLess(s, t) ==
    IF t = <<>> THEN FALSE
    ELSE IF s = <<>> THEN TRUE
    ELSE IF Head(s) # Head(t) THEN Ord(Head(s)) < Ord(Head(t))
    ELSE StrLess(Tail(s), Tail(t))

\* re.sub(r'[^\w\s-]', '', name).strip().replace(' ', '_')
safe_name(name) ==
    LET kept == SelectSeq(name, LAMBDA c : c \in Letters \cup Digits \cup Whitespace
                                                 \cup {"_", "-"})
        stripped == Strip(kept)
    IN [i \in 1..Len(stripped) |-> IF stripped[i] = " " THEN "_" ELSE stripped[i]]

\* f"{n:02d}" for a number below 100
TwoDigits(n) ==
    LET digit(k) == CHOOSE c \in Digits : Ord(c) - Ord("0") = k
    IN <<digit(n \div 10), digit(n % 10)>>

\* f"{i+1:02d}_{safe_name}.json" for the contact at index i
json_name(i, name) == TwoDigits(i + 1) \o <<"_">> \o safe_name(name) \o S_Json

\* sorted(glob.glob(os.path.join(DATA_DIR, "*.json"))): the files by name
sorted_glob(files) ==
    LET n == Cardinality(files)
        at(p) == CHOOSE f \in files :
                    Cardinality({ g \in files : StrLess(g.file, f.file) }) = p - 1
    IN SubSeq([p \in 1..n |-> at(p)], 1, n)

\* with open(json_path, 'w'): a file of the name is replaced, the others stay.
write_files(files, written) ==
    { f \in files : \A w \in written : w.file # f.file } \cup written

\* The files extract_messages writes for top_contacts: one for each contact, with
\* no summary.
extracted_files(top_contacts) ==
    { [file |-> json_name(i - 1, top_contacts[i]), index |-> i - 1,
       name |-> top_contacts[i], summary |-> FALSE] : i \in 1..Len(top_contacts) }

\* A variant of the test of get_contacts_needing_summaries that finds no file wanting.
lacks_summary_never(f) == FALSE

\* if not data.get('summary')
lacks_summary(f) == ~f.summary

\* get_contacts_needing_summaries: the files with no summary, by file name.
get_contacts_needing_summaries(dir) ==
    IF ~dir.exists THEN <<>> ELSE SelectSeq(sorted_glob(dir.files), lacks_summary)

\* if not os.path.exists(DATA_DIR) or not glob.glob(os.path.join(DATA_DIR, "*.json"))
extraction_needed(dir) == ~dir.exists \/ dir.files = {}

\* The contacts by message count as the databases have them when a command runs:
\* the people the user writes with, in some order.
Rankings ==
    { <<>>, <<S_Al>>, <<S_ZedDot>>, <<S_Al, S_ZedDot>>, <<S_ZedDot, S_Al>> }

\* extract_messages: the directory after it, for the contacts of the databases and
\* --top.
extract_messages(dir, ranking, top_n) ==
    [exists |-> TRUE, files |-> write_files(dir.files, extracted_files(Take(ranking, top_n)))]

\* build_html: the report it writes, a slide for each JSON file in the order of the
\* file names, or none when there is nothing to build from.
build_html(dir, old) ==
    IF ~dir.exists \/ dir.files = {} THEN old
    ELSE LET files == sorted_glob(dir.files)
         IN [built |-> TRUE, contacts |-> [i \in 1..Len(files) |-> files[i].name]]

\* The step build_html ends with: an error message or the report.
build_step(dir) == IF ~dir.exists \/ dir.files = {} THEN "error" ELSE "build"

\* No report has been built.
NoHtml == [built |-> FALSE, contacts |-> <<>>]

\* The variables the commands of people_wrapped.py leave alone.
NotOfPeople == <<resolveVars, callVars, metricVars, mainVars, briefVars>>

InitPeople ==
    /\ book = CallBook
    /\ pushRows = CallPush
    /\ call = NoCall
    /\ CallsIdle
    /\ MetricsIdle
    /\ MainIdle
    /\ BriefIdle
    /\ PeopleIdle

\* python3 people_wrapped.py extract --top N
CommandExtract ==
    /\ \E ranking \in Rankings, top_n \in 1..MaxTop :
          /\ data_dir' = extract_messages(data_dir, ranking, top_n)
          /\ extracted' = [done |-> TRUE, contacts |-> Take(ranking, top_n), top_n |-> top_n]
    /\ command' = [name |-> "extract", steps |-> <<"extract">>]
    /\ UNCHANGED html
    /\ UNCHANGED NotOfPeople

\* check_access of extract_messages finds no database and ends the command, extract
\* or run, with sys.exit(1) before anything is written.
CommandDenied ==
    /\ \E name \in {"extract", "run"} :
          /\ name = "run" => extraction_needed(data_dir)
          /\ command' = [name |-> name, steps |-> <<"exit">>]
    /\ UNCHANGED <<data_dir, html, extracted>>
    /\ UNCHANGED NotOfPeople

\* python3 people_wrapped.py summarize
CommandSummarize ==
    /\ command' = [name |-> "summarize", steps |-> <<"instructions">>]
    /\ UNCHANGED <<data_dir, html, extracted>>
    /\ UNCHANGED NotOfPeople

\* python3 people_wrapped.py build
CommandBuild ==
    /\ html' = build_html(data_dir, html)
    /\ command' = [name |-> "build", steps |-> <<build_step(data_dir)>>]
    /\ UNCHANGED <<data_dir, extracted>>
    /\ UNCHANGED NotOfPeople

\* python3 people_wrapped.py status
CommandStatus ==
    /\ command' = [name |-> "status", steps |-> <<"status">>]
    /\ UNCHANGED <<data_dir, html, extracted>>
    /\ UNCHANGED NotOfPeople

\* python3 people_wrapped.py (run): extract when there is no JSON file, then the
\* instructions and return while a file has no summary, else build.
CommandRun ==
    /\ \E ranking \in Rankings, top_n \in 1..MaxTop :
          LET extract == extraction_needed(data_dir)
              dir == IF extract THEN extract_messages(data_dir, ranking, top_n)
                     ELSE data_dir
              first == IF extract THEN "extract" ELSE "skip"
              needs_summary == get_contacts_needing_summaries(dir)
          IN /\ data_dir' = dir
             /\ extracted' = IF extract
                             THEN [done |-> TRUE, contacts |-> Take(ranking, top_n),
                                   top_n |-> top_n]
                             ELSE extracted
             /\ IF needs_summary # <<>>
                THEN /\ command' = [name |-> "run", steps |-> <<first, "instructions">>]
                     /\ UNCHANGED html
                ELSE /\ command' = [name |-> "run", steps |-> <<first, build_step(dir)>>]
                     /\ html' = build_html(dir, html)
    /\ UNCHANGED NotOfPeople

\* The summaries are written between the commands: a JSON file gets its summary.
WriteSummary ==
    /\ \E f \in data_dir.files :
          /\ ~f.summary
          /\ data_dir' = [data_dir EXCEPT
                            !.files = write_files(@, {[f EXCEPT !.summary = TRUE]})]
    /\ UNCHANGED <<html, extracted, command>>
    /\ UNCHANGED NotOfPeople

NextPeople ==
    \/ CommandExtract
    \/ CommandDenied
    \/ CommandSummarize
    \/ CommandBuild
    \/ CommandStatus
    \/ CommandRun
    \/ WriteSummary

SpecPeople == InitPeople /\ [][NextPeople]_vars

----------------------------------------------------------------------------
(* localbrief.py: LocalBrief, its loader threads and its timers *)

\* Hours between a render and the automatic refresh it schedules.
REFRESH_HOURS == 3

\* The hours the application is watched for.
MaxHours == 4

\* Largest number of times Cmd-R is pressed.
MaxPresses == 2

\* s without its i-th element
Without(s, i) == SubSeq(s, 1, i - 1) \o SubSeq(s, i + 1, Len(s))

\* The frame _update_loading draws: the title and "Loading <load_status>...".
loading_frame(status) == [shows |-> "loading", status |-> status, load |-> 0]

\* What render draws for self.data: nothing loaded, the error, or the dashboard of
\* the data of a load.
rendering(data) ==
    IF data.kind = "none" THEN [shows |-> "nodata", status |-> "", load |-> 0]
    ELSE IF data.kind = "error" THEN [shows |-> "error", status |-> "", load |-> data.load]
    ELSE [shows |-> "dashboard", status |-> "", load |-> data.load]

\* render reaches its last statement, root.after(REFRESH_HOURS * 60 * 60 * 1000,
\* self.refresh): it has not returned early on no data or on an error.
schedules_refresh(data) == data.kind = "data"

\* if self.loading: return
refresh_refused(loading) == loading

\* refresh, called by the key binding or by a timer that has left pending: nothing
\* when a load is in progress, else the flag is set, _update_loading draws a frame
\* and schedules itself, and a thread is started on _load_data.
Refresh(pending) ==
    IF refresh_refused(app.loading)
    THEN /\ timers' = pending
         /\ UNCHANGED <<app, loaders, screen, started>>
    ELSE /\ app' = [app EXCEPT !.loading = TRUE, !.load_status = "starting"]
         /\ screen' = loading_frame("starting")
         /\ timers' = [pending EXCEPT !.updates = @ + 1]
         /\ loaders' = loaders \cup {[id |-> started + 1, at |-> "load"]}
         /\ started' = started + 1

\* The variables LocalBrief leaves alone.
NotOfBrief == <<resolveVars, callVars, metricVars, mainVars, peopleVars>>

\* LocalBrief() has been constructed: the title is shown and the first refresh is
\* scheduled.
InitBrief ==
    /\ book = CallBook
    /\ pushRows = CallPush
    /\ call = NoCall
    /\ CallsIdle
    /\ MetricsIdle
    /\ MainIdle
    /\ PeopleIdle
    /\ app = [data |-> NoData, loading |-> FALSE, load_status |-> ""]
    /\ timers = [NoTimers EXCEPT !.initial = TRUE]
    /\ loaders = {}
    /\ screen = [shows |-> "title", status |-> "", load |-> 0]
    /\ hours = 0
    /\ presses = 0
    /\ started = 0

\* Cmd-R is pressed: the binding calls refresh.
KeyRefresh ==
    /\ presses < MaxPresses
    /\ presses' = presses + 1
    /\ Refresh(timers)
    /\ UNCHANGED hours
    /\ UNCHANGED NotOfBrief

\* The timer of __init__, root.after(100, self.refresh), fires.
InitialRefresh ==
    /\ timers.initial
    /\ Refresh([timers EXCEPT !.initial = FALSE])
    /\ UNCHANGED <<hours, presses>>
    /\ UNCHANGED NotOfBrief

\* A timer that a render scheduled fires when its time has come, and calls refresh.
AutoRefresh ==
    /\ \E i \in 1..Len(timers.autos) :
          /\ timers.autos[i] <= hours
          /\ Refresh([timers EXCEPT !.autos = Without(@, i)])
    /\ UNCHANGED <<hours, presses>>
    /\ UNCHANGED NotOfBrief

\* A timer of _update_loading fires: it returns at once when no load is in progress,
\* else it draws the frame and schedules itself again.
UpdateLoading ==
    /\ timers.updates > 0
    /\ IF ~app.loading
       THEN /\ timers' = [timers EXCEPT !.updates = @ - 1]
            /\ UNCHANGED screen
       ELSE /\ screen' = loading_frame(app.load_status)
            /\ UNCHANGED timers
    /\ UNCHANGED <<app, loaders, hours, presses, started>>
    /\ UNCHANGED NotOfBrief

\* A loader thread in load_all_data calls progress(status).
LoaderProgress ==
    /\ \E t \in loaders :
          /\ t.at = "load"
          /\ app' = [app EXCEPT !.load_status = "messages"]
    /\ UNCHANGED <<timers, loaders, screen, hours, presses, started>>
    /\ UNCHANGED NotOfBrief

\* load_all_data returns or raises in a loader thread: self.data is the data of the
\* load, or the error.
LoaderStore ==
    /\ \E t \in loaders, kind \in {"data", "error"} :
          /\ t.at = "load"
          /\ app' = [app EXCEPT !.data = [kind |-> kind, load |-> t.id]]
          /\ loaders' = (loaders \ {t}) \cup {[t EXCEPT !.at = "clear"]}
    /\ UNCHANGED <<timers, screen, hours, presses, started>>
    /\ UNCHANGED NotOfBrief

\* self.loading = False in a loader thread
LoaderClear ==
    /\ \E t \in loaders :
          /\ t.at = "clear"
          /\ app' = [app EXCEPT !.loading = FALSE]
          /\ loaders' = (loaders \ {t}) \cup {[t EXCEPT !.at = "after"]}
    /\ UNCHANGED <<timers, screen, hours, presses, started>>
    /\ UNCHANGED NotOfBrief

\* self.root.after(0, self.render) in a loader thread, which then returns.  The render
\* is kept with the number of the load whose thread scheduled it.
LoaderAfter ==
    /\ \E t \in loaders :
          /\ t.at = "after"
          /\ timers' = [timers EXCEPT !.renders = Append(@, t.id)]
          /\ loaders' = loaders \ {t}
    /\ UNCHANGED <<app, screen, hours, presses, started>>
    /\ UNCHANGED NotOfBrief

\* A scheduled render runs: it draws self.data as it is now, and unless it returns
\* early it schedules an automatic refresh.
Render ==
    /\ timers.renders # <<>>
    /\ screen' = rendering(app.data)
    /\ timers' = [timers EXCEPT
                    !.renders = Tail(@),
                    !.autos = IF schedules_refresh(app.data)
                              THEN Append(@, hours + REFRESH_HOURS) ELSE @]
    /\ UNCHANGED <<app, loaders, hours, presses, started>>
    /\ UNCHANGED NotOfBrief

\* An hour passes.  A load, a frame and a render take seconds: they are over before
\* it, and a timer whose time has come has fired.
Tick ==
    /\ hours < MaxHours
    /\ loaders = {}
    /\ ~timers.initial /\ timers.updates = 0 /\ timers.renders = <<>>
    /\ \A i \in 1..Len(timers.autos) : timers.autos[i] > hours
    /\ hours' = hours + 1
    /\ UNCHANGED <<app, timers, loaders, screen, presses, started>>
    /\ UNCHANGED NotOfBrief

NextBrief ==
    \/ KeyRefresh
    \/ InitialRefresh
    \/ AutoRefresh
    \/ UpdateLoading
    \/ LoaderProgress
    \/ LoaderStore
    \/ LoaderClear
    \/ LoaderAfter
    \/ Render
    \/ Tick

SpecBrief == InitBrief /\ [][NextBrief]_vars

----------------------------------------------------------------------------
(* Vocabulary of the resolver claims, stated apart from the resolvers *)

\* The digits of the identifier of the call.
CallDigits == SelectSeq(call.ident, LAMBDA c : c \in Digits)

\* The identifier has at least 10 digits and a toll-free triplet at [-10:-7].
CallIsTollFree ==
    /\ Len(CallDigits) >= 10
    /\ SubSeq(CallDigits, Len(CallDigits) - 9, Len(CallDigits) - 7) \in TollFree

\* The identifier has 5 or 6 digits.
CallIsShortCode == Len(CallDigits) \in {5, 6}

\* The identifier is address-like.
CallHasAt == \E i \in 1..Len(call.ident) : call.ident[i] = "@"

\* The last n digits of the identifier, for an identifier of at least n digits.
CallLast(n) == SubSeq(CallDigits, Len(CallDigits) - n + 1, Len(CallDigits))

\* The directory the resolver of the call looks into.
CallDirectory ==
    CASE call.fn \in {"get_name", "whatsapp_call_name"} -> extract_contacts(book)
      [] call.fn = "get_name_imessage" -> extract_imessage_contacts(book)
      [] call.fn = "resolve_contact" -> load_contacts(book)
      [] OTHER -> <<>>

\* The four lookup keys of the identifier in tier order; None where a tier does not apply.
CallTiers ==
    << CallDigits,
       IF Len(CallDigits) = 11 /\ CallDigits[1] = "1" THEN SubSeq(CallDigits, 2, 11) ELSE None,
       IF Len(CallDigits) >= 10 THEN CallLast(10) ELSE None,
       IF Len(CallDigits) >= 7 THEN CallLast(7) ELSE None >>

\* The tiers whose key the directory holds.
CallHits == { i \in 1..4 : CallTiers[i] \in DOMAIN CallDirectory }

\* A resolver call on a phone-like identifier that reaches the directory lookup.
CallReachesLookup ==
    \/ /\ call.fn = "get_name"
       /\ Truthy(call.ident) /\ ~CallIsShortCode /\ ~CallIsTollFree
    \/ /\ call.fn = "get_name_imessage"
       /\ ~CallHasAt
    \/ /\ call.fn = "resolve_contact"
       /\ Truthy(call.ident) /\ ~Truthy(call.push)
       /\ ~CallHasAt /\ ~CallIsShortCode /\ ~CallIsTollFree

----------------------------------------------------------------------------
(* C1: toll-free numbers *)

\* C1 as stated: in get_name and in resolve_contact called without a display name,
\* every identifier with at least 10 digits and a toll-free triplet at [-10:-7]
\* resolves to None, whatever the directory holds.
C1_TollFreeAnyIdentifier ==
    ( /\ call.fn \in {"get_name", "resolve_contact"}
      /\ ~Truthy(call.push)
      /\ CallIsTollFree )
    => call.result = None

\* C1 (amended): the same for every identifier of get_name and for the identifiers
\* of resolve_contact that contain no '@' (an address goes to the e-mail branch first).
C1_TollFreePhoneLike ==
    ( /\ call.fn \in {"get_name", "resolve_contact"}
      /\ ~Truthy(call.push)
      /\ call.fn = "resolve_contact" => ~CallHasAt
      /\ CallIsTollFree )
    => call.result = None

\* A toll-free number whose full digits the directory maps to a name resolves to None.
C1_Witness ==
    /\ call.fn = "get_name"
    /\ CallIsTollFree
    /\ CallDigits \in DOMAIN CallDirectory
    /\ CallLast(7) \in DOMAIN CallDirectory
    /\ call.result = None

----------------------------------------------------------------------------
(* C2: tier order *)

\* C2: a phone-like identifier that reaches the lookup resolves to the name of the
\* first tier that hits, in the order full digits, leading 1 stripped, last 10, last 7.
C2_FirstTierWins ==
    (CallReachesLookup /\ CallHits # {})
    => LET first == CHOOSE i \in CallHits : \A j \in CallHits : i <= j
       IN call.result = CallDirectory[CallTiers[first]]

\* Two tiers hit with different names and the earlier tier's name is returned.
C2_Witness ==
    /\ CallReachesLookup
    /\ \E i, j \in CallHits :
          /\ i < j
          /\ \A k \in CallHits : i <= k
          /\ CallDirectory[CallTiers[i]] # CallDirectory[CallTiers[j]]
          /\ call.result = CallDirectory[CallTiers[i]]

----------------------------------------------------------------------------
(* C3: country code 1 *)

\* The call is get_name on 1 + N for a 10-digit, non-toll-free N the directory holds.
C3_Case ==
    /\ call.fn = "get_name"
    /\ Len(CallDigits) = 11 /\ CallDigits[1] = "1"
    /\ ~CallIsTollFree
    /\ CallLast(10) \in DOMAIN CallDirectory

\* C3 as stated: 1 + N resolves to the same name as N itself.
C3_SameNameWithCountryCode ==
    C3_Case => call.result = get_name(CallLast(10), CallDirectory)

\* C3 (amended): 1 + N resolves to the name of N unless the directory has an entry
\* for the 11 digits themselves, whose name is then returned.
C3_SameNameUnlessFullEntry ==
    C3_Case =>
        /\ CallDigits \notin DOMAIN CallDirectory
              => /\ call.result = get_name(CallLast(10), CallDirectory)
                 /\ call.result = CallDirectory[CallLast(10)]
        /\ CallDigits \in DOMAIN CallDirectory
              => call.result = CallDirectory[CallDigits]

\* 1 + N resolves through N's entry: the directory has no entry for the 11 digits.
C3_Witness ==
    /\ C3_Case
    /\ CallDigits \notin DOMAIN CallDirectory
    /\ call.result = CallDirectory[CallLast(10)]

----------------------------------------------------------------------------
(* C4: platform-provided display name *)

\* The push name ZWAPROFILEPUSHNAME holds for the JID of the call, or None.
CallPushName ==
    IF \E i \in 1..Len(pushRows) : pushRows[i].jid = call.ident
    THEN pushRows[CHOOSE i \in 1..Len(pushRows) : pushRows[i].jid = call.ident].name
    ELSE None

\* The display name the platform provides to the call, or None.
CallPlatformName ==
    CASE call.fn = "resolve_contact" -> call.push
      [] call.fn = "whatsapp_call_name" -> CallPushName
      [] OTHER -> None

\* C4 as stated: a present, non-empty platform name is returned exactly, unchanged.
C4_PlatformNameVerbatim ==
    Truthy(CallPlatformName) => call.result = CallPlatformName

\* C4 (amended): analyze_whatsapp_calls returns the push name unchanged;
\* resolve_contact returns the name with surrounding whitespace removed, when the
\* identifier is non-empty and the name is not all whitespace.  Neither looks at the
\* exclusion rules or the directory.
C4_PlatformNameFirst ==
    /\ (call.fn = "whatsapp_call_name" /\ Truthy(CallPlatformName))
          => call.result = CallPlatformName
    /\ ( /\ call.fn = "resolve_contact"
         /\ Truthy(call.ident)
         /\ Truthy(call.push)
         /\ \E i \in 1..Len(call.push) : call.push[i] # " " )
          => LET n == call.push
                 first == CHOOSE i \in 1..Len(n) : n[i] # " " /\ \A j \in 1..(i-1) : n[j] = " "
                 last == CHOOSE i \in 1..Len(n) : n[i] # " " /\ \A j \in (i+1)..Len(n) : n[j] = " "
             IN call.result = SubSeq(n, first, last)

\* A padded partner name on a toll-free number the directory holds is returned stripped.
C4_Witness ==
    /\ call.fn = "resolve_contact"
    /\ call.push = S_ZedPadded
    /\ CallIsTollFree
    /\ CallLast(10) \in DOMAIN CallDirectory
    /\ call.result = S_Zed

----------------------------------------------------------------------------
(* C5: no directory hit *)

\* The local part of the JID of the call: the characters before the first '@'.
CallLocalPart ==
    SubSeq(call.ident, 1,
           (CHOOSE i \in 1..Len(call.ident) :
               call.ident[i] = "@" /\ \A j \in 1..(i-1) : call.ident[j] # "@") - 1)

\* A phone-like identifier, neither short code nor toll-free, that no tier finds.
C5_NoHit ==
    \/ CallReachesLookup /\ call.fn \in {"get_name", "resolve_contact"} /\ CallHits = {}
    \/ /\ call.fn = "get_name_whatsapp"
       /\ Truthy(call.ident) /\ CallHasAt
       /\ ~CallIsShortCode /\ ~CallIsTollFree
       /\ call.ident \notin DOMAIN extract_whatsapp_contacts(pushRows)

\* C5 as stated: a phone-like identifier that is neither short code nor toll-free and
\* has no directory hit resolves to a formatted number, never to None.
C5_FallbackNeverNull ==
    C5_NoHit => call.result # None

\* C5 (amended): with no directory hit get_name and resolve_contact return None;
\* get_name_whatsapp alone returns the number formatted, '(AAA) BBB-CCCC' for 10
\* characters before '@', '+1 (AAA) BBB-CCCC' for 1 and 10 more, else '+' and the
\* characters, and it does so for short codes and toll-free numbers as well.
C5_FallbackByResolver ==
    /\ (C5_NoHit /\ call.fn \in {"get_name", "resolve_contact"}) => call.result = None
    /\ ( /\ call.fn = "get_name_whatsapp"
         /\ Truthy(call.ident) /\ CallHasAt
         /\ call.ident \notin DOMAIN extract_whatsapp_contacts(pushRows) )
          => LET p == CallLocalPart
                 r == call.result
             IN /\ r # None
                /\ SelectSeq(r, LAMBDA c : c \in Digits) = SelectSeq(p, LAMBDA c : c \in Digits)
                /\ Len(p) = 10 => (Len(r) = 14 /\ r[1] = "(" /\ r[5] = ")" /\ r[6] = " " /\ r[10] = "-")
                /\ (Len(p) = 11 /\ p[1] = "1")
                      => (Len(r) = 17 /\ SubSeq(r, 1, 4) = <<"+", "1", " ", "(">> /\ r[13] = "-")
                /\ (Len(p) # 10 /\ ~(Len(p) = 11 /\ p[1] = "1")) => r = <<"+">> \o p

\* An unknown 10-digit number: None from get_name.
C5_Witness ==
    /\ call.fn = "get_name"
    /\ C5_NoHit
    /\ Len(CallDigits) = 10
    /\ call.result = None

----------------------------------------------------------------------------
(* C6: short codes *)

\* C6 as stated: every identifier whose digit string has length 5 or 6 resolves to None.
C6_ShortCodeAnyIdentifier ==
    (call.fn \in {"get_name", "resolve_contact"} /\ CallIsShortCode)
    => call.result = None

\* C6 (amended): the same for every identifier of get_name, and in resolve_contact
\* for the identifiers without '@' that come with no display name.
C6_ShortCodePhoneLike ==
    ( /\ call.fn \in {"get_name", "resolve_contact"}
      /\ CallIsShortCode
      /\ call.fn = "resolve_contact" => (~CallHasAt /\ ~Truthy(call.push)) )
    => call.result = None

\* A 5-digit number the directory maps to a name resolves to None.
C6_Witness ==
    /\ call.fn = "get_name"
    /\ Len(CallDigits) = 5
    /\ CallDigits \in DOMAIN CallDirectory
    /\ call.result = None

----------------------------------------------------------------------------
(* C7: normalize_phone *)

\* The keys a normalizer result stands for: the one string it returns, if any.
CallKeys == IF call.result = None THEN {} ELSE {call.result}

\* The digits after a leading 1 is dropped from exactly 11 digits.
CallNationalDigits ==
    IF Len(CallDigits) = 11 /\ CallDigits[1] = "1" THEN SubSeq(CallDigits, 2, 11) ELSE CallDigits

\* C7 as stated: with at least 10 digits left, both the last-10 and the last-7 suffix
\* are keys of the result; with fewer than 7 digits there is no key.
C7_BothSuffixKeys ==
    call.fn \in {"normalize_phone", "people_normalize_phone"}
    => /\ Len(CallNationalDigits) >= 10
            => /\ SubSeq(CallNationalDigits, Len(CallNationalDigits) - 9,
                         Len(CallNationalDigits)) \in CallKeys
               /\ SubSeq(CallNationalDigits, Len(CallNationalDigits) - 6,
                         Len(CallNationalDigits)) \in CallKeys
       /\ Len(CallNationalDigits) < 7 => CallKeys = {}

\* C7 (amended): the result is one key.  With at least 10 digits left it is the last
\* 10 digits (in people_wrapped all the digits, when there are more than 10 and they
\* are not 1 and 10 more); with 7 to 9 digits it is the digits; with fewer, None.
\* The last-7 suffix is returned for no number of more than 7 digits.
C7_OneKey ==
    call.fn \in {"normalize_phone", "people_normalize_phone"}
    => LET d == CallNationalDigits
           n == Len(d)
       IN /\ n >= 10 /\ (call.fn = "normalize_phone" \/ n = 10)
                => call.result = SubSeq(d, n - 9, n)
          /\ n > 10 /\ call.fn = "people_normalize_phone" => call.result = d
          /\ (7 <= n /\ n <= 9) => call.result = d
          /\ n < 7 => call.result = None
          /\ call.result # None => Len(call.result) # 7 \/ n = 7

\* "+1 (415) 555-2671" normalizes to "4155552671" only.
C7_Witness ==
    /\ call.fn = "normalize_phone"
    /\ call.ident = P_Intl
    /\ call.result = P_Ten
    /\ P_SevenDigits \notin CallKeys

----------------------------------------------------------------------------
(* Vocabulary of the claims about the call report *)

\* The merge of the run is over: analyze_calls has built d['stats'] and its tally.
Merged == pc \in {"convert", "done"}

\* The rows of the call history whose number resolves to no name.
NullPhoneRows ==
    { i \in 1..Len(phone_rows) : ~Truthy(get_name(phone_rows[i].phone, extract_contacts(book))) }

\* The rows of the WhatsApp call history whose JID resolves to no name.
NullWhatsappRows ==
    { i \in 1..Len(wa_rows) :
        ~Truthy(whatsapp_call_name(wa_rows[i].jid, load_wa_contacts(pushRows),
                                   extract_contacts(book))) }

\* The number of events read, and of those that resolve to no name.
EventCount == Len(phone_rows) + Len(wa_rows)
NullEventCount == Cardinality(NullPhoneRows) + Cardinality(NullWhatsappRows)

\* The sum of a field over the items of a tally or of the profiles.
RECURSIVE SumOf(_, _)
SumOf(items, field) ==
    IF items = <<>> THEN 0 ELSE items[1][field] + SumOf(Tail(items), field)

\* The events of the merged list that belong to a phone key.
EventsOfKey(key) == { j \in 1..Len(all_calls) : phone_key(all_calls[j]) = key }

\* The name variants seen for a phone key.
VariantsOfKey(key) == { all_calls[j].name : j \in EventsOfKey(key) }

\* The variants of a key that no other variant of the key is longer than.
LongestVariants(key) ==
    { n \in VariantsOfKey(key) : \A m \in VariantsOfKey(key) : Len(m) <= Len(n) }

\* The events whose key can be stored under the name n only, and those whose key may be.
EventsSurelyUnder(n) ==
    { j \in 1..Len(all_calls) : LongestVariants(phone_key(all_calls[j])) = {n} }
EventsMaybeUnder(n) ==
    { j \in 1..Len(all_calls) : n \in LongestVariants(phone_key(all_calls[j])) }

\* The sum of the durations of a set of events of the merged list.
RECURSIVE DurationOf(_)
DurationOf(events) ==
    IF events = {} THEN 0
    ELSE LET j == CHOOSE e \in events : TRUE
         IN all_calls[j].duration + DurationOf(events \ {j})

\* The profiles stored under a name, and those that come from a phone key.
ProfilesNamed(n) == { i \in 1..Len(contact_stats) : contact_stats[i].name = n }
ProfilesOfKey(key) == { i \in 1..Len(contact_stats) : contact_stats[i].key = key }

----------------------------------------------------------------------------
(* C8 *)

\* C8 as stated: once the calls are merged, stats.total counts every event read,
\* those that resolve to no name included, and the tallies of the contacts count
\* none of those.
C8_NullEventsInTotals ==
    Merged =>
        /\ stats.total = EventCount
        /\ SumOf(phone_stats, "count") = EventCount - NullEventCount

\* C8 as the code has it: an event that resolves to no name is dropped when it is
\* read, so that once the calls are merged stats.total counts the named events only,
\* and so do the tallies of the contacts.
C8_NullEventsNowhere ==
    Merged =>
        /\ stats.total = EventCount - NullEventCount
        /\ Len(all_calls) = EventCount - NullEventCount
        /\ \A j \in 1..Len(all_calls) : Truthy(all_calls[j].name)
        /\ SumOf(phone_stats, "count") = EventCount - NullEventCount

\* A finished report of a run that read a phone call and a WhatsApp call with no
\* name next to a named call.
C8_Witness ==
    /\ pc = "done"
    /\ NullPhoneRows # {}
    /\ NullWhatsappRows # {}
    /\ stats.total = 1
    /\ Len(contact_stats) = 1

----------------------------------------------------------------------------
(* C9 *)

\* C9: in a finished report each display name has exactly one profile, whose count
\* and duration are the sums over all the events merged under that name, whatever
\* their platform or number.  An event counts for a name when its phone key can be
\* stored under that name only; a key whose longest variants tie may go to either.
C9_NameIsSoleKey ==
    pc = "done" =>
        /\ \A j \in 1..Len(all_calls) :
              \E n \in LongestVariants(phone_key(all_calls[j])) : ProfilesNamed(n) # {}
        /\ \A i \in 1..Len(contact_stats) :
              LET n == contact_stats[i].name IN
              /\ ProfilesNamed(n) = {i}
              /\ Cardinality(EventsSurelyUnder(n)) <= contact_stats[i].count
              /\ contact_stats[i].count <= Cardinality(EventsMaybeUnder(n))
              /\ DurationOf(EventsSurelyUnder(n)) <= contact_stats[i].duration
              /\ contact_stats[i].duration <= DurationOf(EventsMaybeUnder(n))

----------------------------------------------------------------------------
(* C10 *)

\* C10, of the profiles: a profile is stored under a longest one of the name
\* variants seen for its phone key, and a phone key has at most one profile.
C10_ProfileUnderLongest ==
    \A i \in 1..Len(contact_stats) :
        /\ contact_stats[i].name \in LongestVariants(contact_stats[i].key)
        /\ ProfilesOfKey(contact_stats[i].key) = {i}

\* C10, of the conversion: the turn for a phone key leaves the profile of that key
\* under a longest one of its variants.
C10_ConvertStoresLongest ==
    pc = "convert" =>
        \E i \in 1..Len(contact_stats') :
            /\ contact_stats'[i].key = phone_stats[next_key].key
            /\ contact_stats'[i].name \in LongestVariants(phone_stats[next_key].key)
            /\ contact_stats'[i].count = Cardinality(EventsOfKey(phone_stats[next_key].key))

\* C10: when several name variants were seen for a phone key, the profile of the key
\* is stored under the longest of the variants seen for it (one of the longest when
\* they tie) and under no other.
C10_LongestVariantWins ==
    /\ []C10_ProfileUnderLongest
    /\ [][C10_ConvertStoresLongest]_vars

\* A finished report with a phone key seen under a shorter and a longer name, whose
\* profile is under the longer.
C10_Witness ==
    /\ pc = "done"
    /\ \E i \in 1..Len(contact_stats) :
          /\ \E m \in VariantsOfKey(contact_stats[i].key) :
                Len(m) < Len(contact_stats[i].name)
          /\ contact_stats[i].count = Cardinality(EventsOfKey(contact_stats[i].key))
          /\ contact_stats[i].count >= 2

----------------------------------------------------------------------------
(* C11 *)

\* C11: a second run of analyze_calls on the same lists of calls, with the same
\* timestamps, makes the report the first run made.
C11_SameReportTwice ==
    (pc = "done" /\ previous.made) => report = previous

----------------------------------------------------------------------------
(* C12 *)

\* C12: the report of a run on no calls has every ranked list empty, every optional
\* selection None, and the label of the final else branch as its personality.
C12_EmptyReport ==
    (pc = "done" /\ phone_calls = <<>> /\ whatsapp_calls = <<>>) =>
        /\ report.made
        /\ report.top_count = <<>> /\ report.top_duration = <<>>
        /\ report.missed_kings = <<>> /\ report.biggest_fans = <<>>
        /\ report.heating_up = <<>> /\ report.cooling_down = <<>>
        /\ report.ghosts = <<>>
        /\ report.longest_call = Nothing /\ report.first_call = Nothing
        /\ report.longest_streak = Nothing /\ report.avg_callback_time = Nothing
        /\ report.personality = "THE BALANCED CALLER"

----------------------------------------------------------------------------
(* C13 *)

\* The rules of the classification the call is about, top to bottom: whether the
\* predicate of the rule is true of the arguments, and the label of the rule.
ClassifyRules ==
    LET a == metric.args IN
    IF metric.fn = "personality"
    THEN LET n == IF a.answered < 1 THEN 1 ELSE a.answered
             t == IF a.total_calls < 1 THEN 1 ELSE a.total_calls
         IN << [when |-> a.answered_duration < 60 * n /\ a.total_calls > 200,
                label |-> "THE SPEED DIALER"],
               [when |-> a.answered_duration > 600 * n /\ a.total_calls > 50,
                label |-> "THE CHATTY CATHY"],
               [when |-> 5 * a.missed > 2 * t, label |-> "THE SCREENER"],
               [when |-> 10 * a.outgoing > 7 * t, label |-> "THE INITIATOR"],
               [when |-> 10 * a.outgoing < 3 * t, label |-> "THE POPULAR ONE"],
               [when |-> a.callback \in {<<v>> : v \in 1..9}, label |-> "THE RESPONSIVE ONE"],
               [when |-> a.total_calls < 50, label |-> "THE PHONE PHOBIC"],
               [when |-> 2 * a.weekend_calls > a.weekday_calls,
                label |-> "THE WEEKEND WARRIOR"] >>
    ELSE << [when |-> a.hour < 5 \/ a.hour > 22, label |-> "NOCTURNAL MENACE"],
            [when |-> a.resp < 5, label |-> "TERMINALLY ONLINE"],
            [when |-> a.resp > 120, label |-> "TOO COOL TO REPLY"],
            [when |-> 2 * a.sent < a.received + 1, label |-> "POPULAR (ALLEGEDLY)"],
            [when |-> a.sent > 2 * a.received + 2, label |-> "THE YAPPER"],
            [when |-> a.starter_pct > 65, label |-> "CONVERSATION STARTER"],
            [when |-> a.starter_pct < 35, label |-> "THE WAITER"] >>

\* The label of the final else branch.
ClassifyDefault ==
    IF metric.fn = "personality" THEN "THE BALANCED CALLER" ELSE "SUSPICIOUSLY NORMAL"

\* The rules whose predicate is true.
ClassifyTrue == { i \in 1..Len(ClassifyRules) : ClassifyRules[i].when }

\* C13: the classification gives one label: that of the first rule, top to bottom,
\* whose predicate is true, and the default label when no predicate is true.
C13_FirstTrueRuleWins ==
    metric.fn \in {"personality", "merge_personality"} =>
        /\ ClassifyTrue # {} =>
              metric.result =
                 ClassifyRules[CHOOSE i \in ClassifyTrue : \A j \in ClassifyTrue : i <= j].label
        /\ ClassifyTrue = {} => metric.result = ClassifyDefault

\* Calls on which the rules of THE SCREENER and of THE INITIATOR are both true: the
\* label is THE SCREENER, the upper of the two.
C13_Witness ==
    /\ metric.fn = "personality"
    /\ ClassifyTrue = {3, 4, 7}
    /\ metric.result = "THE SCREENER"

\* Calls on which no rule is true: the label is the default.
C13_DefaultWitness ==
    /\ metric.fn = "personality"
    /\ ClassifyTrue = {}
    /\ metric.result = "THE BALANCED CALLER"

----------------------------------------------------------------------------
(* C14 *)

\* The inbound calls of a name that were not answered.
MissedFrom(name) ==
    { i \in 1..Len(all_calls) :
        all_calls[i].name = name /\ ~all_calls[i].outgoing /\ ~all_calls[i].answered }

\* Whether an outbound call to the name of call i has a timestamp strictly greater.
ReturnedLater(i) ==
    \E j \in 1..Len(all_calls) :
        /\ all_calls[j].outgoing
        /\ all_calls[j].name = all_calls[i].name
        /\ all_calls[j].timestamp > all_calls[i].timestamp

\* The missed calls of a name that were never returned.
NeverReturned(name) == { i \in MissedFrom(name) : ~ReturnedLater(i) }

\* The names of the calls.
CallNames == { all_calls[i].name : i \in 1..Len(all_calls) }

\* The ghost counter of a name in the report, 0 for a name that is not listed.
GhostCount(name) ==
    IF \E i \in 1..Len(report.ghosts) : report.ghosts[i].name = name
    THEN report.ghosts[CHOOSE i \in 1..Len(report.ghosts) : report.ghosts[i].name = name].n
    ELSE 0

C14_ReturnedWitness ==
    /\ pc = "done"
    /\ \E i \in 1..Len(all_calls) :
          /\ i \in MissedFrom(all_calls[i].name)
          /\ ReturnedLater(i)
          /\ GhostCount(all_calls[i].name) = 0

----------------------------------------------------------------------------
(* C15 *)

\* The inbound calls that were not answered.
MissedEvents == { i \in 1..Len(all_calls) : ~all_calls[i].outgoing /\ ~all_calls[i].answered }

\* The callback latency of missed call i in seconds: from the call to the earliest
\* outbound call to the same contact with a greater timestamp.
Latency(i) ==
    LET returns == { j \in 1..Len(all_calls) :
                        /\ all_calls[j].outgoing
                        /\ all_calls[j].name = all_calls[i].name
                        /\ all_calls[j].timestamp > all_calls[i].timestamp }
        first == CHOOSE j \in returns :
                    \A k \in returns : all_calls[j].timestamp <= all_calls[k].timestamp
    IN all_calls[first].timestamp - all_calls[i].timestamp

\* The missed calls returned in under 24 hours.
Qualifying == { i \in MissedEvents : ReturnedLater(i) /\ Latency(i) < 24 * 3600 }

\* The sum of the latencies of a set of missed calls.
RECURSIVE TotalLatency(_)
TotalLatency(events) ==
    IF events = {} THEN 0
    ELSE LET i == CHOOSE e \in events : TRUE
         IN Latency(i) + TotalLatency(events \ {i})

\* C15: the reported average callback time is null when no missed call was returned
\* in under 24 hours; otherwise it is the mean, to the nearest minute, of the
\* latencies of the missed calls of all contacts that were returned in under 24
\* hours, the latency being the time to the earliest later outbound call to the
\* contact.
C15_AverageCallback ==
    pc = "done" =>
        /\ Qualifying = {} => report.avg_callback_time = Nothing
        /\ Qualifying # {} =>
              /\ Len(report.avg_callback_time) = 1
              /\ LET n == Cardinality(Qualifying)
                     gap == 60 * n * report.avg_callback_time[1] - TotalLatency(Qualifying)
                 IN -30 * n <= gap /\ gap <= 30 * n

\* A missed call at 100 returned at 700, and nothing else that qualifies: the average
\* is 10 minutes.
C15_Witness ==
    /\ pc = "done"
    /\ \E i \in MissedEvents :
          /\ Qualifying = {i}
          /\ all_calls[i].timestamp = ts_start + 100
          /\ Latency(i) = 600
    /\ report.avg_callback_time = Some(10)

\* A missed call returned exactly 24 hours later: it does not enter the average.
C15_WindowWitness ==
    /\ pc = "done"
    /\ \E i \in MissedEvents : ReturnedLater(i) /\ Latency(i) = 24 * 3600
    /\ Qualifying = {}
    /\ report.avg_callback_time = Nothing

----------------------------------------------------------------------------
(* C16 *)

\* The calendar days, counted from the epoch, with a call of a contact.
DaysOf(name) ==
    { all_calls[i].timestamp \div 86400 :
        i \in { j \in 1..Len(all_calls) : all_calls[j].name = name } }

\* The length of the longest run of consecutive days in a set of days, 0 for no day.
LongestRun(dates) ==
    LET runs == { k \in 1..Cardinality(dates) :
                    \E d \in dates : \A e \in d..(d + k - 1) : e \in dates }
    IN IF runs = {} THEN 0 ELSE CHOOSE k \in runs : \A l \in runs : l <= k

\* The profiles, by their place in contact_stats, whose longest run is at least 3.
Retained == { p \in 1..Len(contact_stats) : LongestRun(DaysOf(contact_stats[p].name)) >= 3 }

\* C16: the streak of a contact is the longest run of consecutive calendar days among
\* the days of its calls; the report keeps the contacts with a run of at least 3 and
\* names the one with the longest run, the first of them in the order of the profiles
\* when several have it; without such a contact the report has no streak.
C16_LongestStreak ==
    pc = "done" =>
        /\ Retained = {} => report.longest_streak = Nothing
        /\ Retained # {} =>
              LET run(p) == LongestRun(DaysOf(contact_stats[p].name))
                  winner == CHOOSE p \in Retained :
                               /\ \A q \in Retained : run(q) <= run(p)
                               /\ \A q \in Retained : q < p => run(q) < run(p)
              IN report.longest_streak =
                    Some([name |-> contact_stats[winner].name, streak |-> run(winner)])

\* A contact with calls on days 1, 2, 3 and 5, 6, 7 of the year and on no other day:
\* its streak is 3.
C16_Witness ==
    /\ pc = "done"
    /\ \E p \in 1..Len(contact_stats) :
          /\ DaysOf(contact_stats[p].name) =
                { ts_start \div 86400 + d : d \in {0, 1, 2, 4, 5, 6} }
          /\ report.longest_streak = Some([name |-> contact_stats[p].name, streak |-> 3])

\* Two contacts with the same longest run: the first of the profiles is named.
C16_TieWitness ==
    /\ pc = "done"
    /\ Cardinality(Retained) = 2
    /\ \A p \in Retained : LongestRun(DaysOf(contact_stats[p].name)) = 4
    /\ report.longest_streak = Some([name |-> contact_stats[1].name, streak |-> 4])

\* A contact with a run of 2 days only: it has no streak.
C16_ShortRunWitness ==
    /\ pc = "done"
    /\ \E p \in 1..Len(contact_stats) : LongestRun(DaysOf(contact_stats[p].name)) = 2
    /\ report.longest_streak = Nothing

----------------------------------------------------------------------------
(* C17 *)

\* The contacts of the call of the heating up list with their counts: of
\* analyze_calls, the names of the calls with the calls before the midpoint and the
\* others; of analyze_imessage, the groups.
TrendContacts ==
    IF metric.fn = "heating_up"
    THEN { [who |-> name,
            h1 |-> Cardinality({ i \in 1..Len(metric.args) :
                      metric.args[i].name = name /\ metric.args[i].timestamp < ts_jun }),
            h2 |-> Cardinality({ i \in 1..Len(metric.args) :
                      metric.args[i].name = name /\ ~(metric.args[i].timestamp < ts_jun) })] :
           name \in { metric.args[i].name : i \in 1..Len(metric.args) } }
    ELSE { [who |-> metric.args[i].id, h1 |-> metric.args[i].h1, h2 |-> metric.args[i].h2] :
           i \in 1..Len(metric.args) }

\* The contacts listed, with the counts they are listed with.
TrendListed ==
    IF metric.fn = "heating_up"
    THEN { [who |-> metric.result[i].name, h1 |-> metric.result[i].h1,
            h2 |-> metric.result[i].h2] : i \in 1..Len(metric.result) }
    ELSE { [who |-> metric.result[i].id, h1 |-> metric.result[i].h1,
            h2 |-> metric.result[i].h2] : i \in 1..Len(metric.result) }

\* The floor on h1 and the length of the list: 3 and 5 in analyze_calls, above 20 and
\* 10 in analyze_imessage.
HeatingFloor == IF metric.fn = "heating_up" THEN 3 ELSE 21
HeatingLength == IF metric.fn = "heating_up" THEN 5 ELSE 10

\* The contacts with h1 at least the floor and h2 more than 1.5 times h1.
HeatingFrom(floor) == { c \in TrendContacts : c.h1 >= floor /\ 2 * c.h2 > 3 * c.h1 }

\* The list is ordered by h2 - h1, largest first.
HeatingOrdered ==
    \A i \in 1..Len(metric.result) : \A j \in i..Len(metric.result) :
        metric.result[i].h2 - metric.result[i].h1 >= metric.result[j].h2 - metric.result[j].h1

\* C17: the heating up list holds contacts with h1 at least the floor of the script (3
\* in analyze_calls, more than 20 in analyze_imessage) and h2 more than 1.5 times h1,
\* each once, ordered by h2 - h1 descending; it holds all of them up to the length of
\* the list (5 in analyze_calls, 10 in analyze_imessage), and beyond that length
\* those with the largest h2 - h1.
C17_HeatingUp ==
    metric.fn \in {"heating_up", "imessage_heating"} =>
        LET hot == HeatingFrom(HeatingFloor)
        IN /\ TrendListed \subseteq hot
           /\ Cardinality(TrendListed) = Len(metric.result)
           /\ Len(metric.result) =
                 IF Cardinality(hot) < HeatingLength THEN Cardinality(hot) ELSE HeatingLength
           /\ HeatingOrdered
           /\ \A c \in hot \ TrendListed : \A l \in TrendListed : c.h2 - c.h1 <= l.h2 - l.h1

\* The claim as it stands: a contact is listed if and only if h1 is at least 3 and h2
\* is more than 1.5 times h1, and the list is ordered by h2 - h1 descending.
C17_ListedIffHeating ==
    metric.fn \in {"heating_up", "imessage_heating"} =>
        /\ TrendListed = HeatingFrom(3)
        /\ HeatingOrdered

\* In analyze_calls a contact with 20 calls before the midpoint and 35 after is listed
\* with a difference of 15, and one with 2 and 10 is not listed.
C17_Witness ==
    /\ metric.fn = "heating_up"
    /\ \E c \in TrendContacts : c.h1 = 2 /\ c.h2 = 10
    /\ Len(metric.result) = 1
    /\ metric.result[1].h1 = 20 /\ metric.result[1].h2 = 35
    /\ metric.result[1].h2 - metric.result[1].h1 = 15

\* In analyze_calls six contacts heat up and five are listed.
C17_CutWitness ==
    /\ metric.fn = "heating_up"
    /\ Cardinality(HeatingFrom(3)) = 6
    /\ Len(metric.result) = 5

\* In analyze_imessage a handle with 20 messages before the midpoint and 35 after is
\* not listed.
C17_ImessageWitness ==
    /\ metric.fn = "imessage_heating"
    /\ \E c \in TrendContacts \ TrendListed : c.h1 = 20 /\ c.h2 = 35
    /\ Len(metric.result) = 2

\* In analyze_imessage eleven handles heat up and ten are listed.
C17_ImessageCutWitness ==
    /\ metric.fn = "imessage_heating"
    /\ Cardinality(HeatingFrom(21)) = 11
    /\ Len(metric.result) = 10

----------------------------------------------------------------------------
(* C18 *)

\* The contacts of the calls with their counts: the calls before the midpoint and the
\* others.
HalfCountsOf(name) ==
    [name |-> name,
     h1 |-> Cardinality({ i \in 1..Len(all_calls) :
               all_calls[i].name = name /\ all_calls[i].timestamp < ts_jun }),
     h2 |-> Cardinality({ i \in 1..Len(all_calls) :
               all_calls[i].name = name /\ ~(all_calls[i].timestamp < ts_jun) })]

\* The contacts with h1 at least 5 and h2 less than half of h1.
Cooling == { c \in { HalfCountsOf(name) : name \in CallNames } : c.h1 >= 5 /\ 2 * c.h2 < c.h1 }

\* The contacts of the cooling down list.
CoolingListed == { report.cooling_down[i] : i \in 1..Len(report.cooling_down) }

\* The cooling down list is ordered by h1 - h2, largest first.
CoolingOrdered ==
    \A i \in 1..Len(report.cooling_down) : \A j \in i..Len(report.cooling_down) :
        report.cooling_down[i].h1 - report.cooling_down[i].h2
            >= report.cooling_down[j].h1 - report.cooling_down[j].h2

\* C18: the cooling down list holds contacts with h1 at least 5 and h2 less than half
\* of h1, each once, ordered by h1 - h2 descending; it holds all of them up to 5, and
\* beyond 5 those with the largest h1 - h2.
C18_CoolingDown ==
    pc = "done" =>
        /\ CoolingListed \subseteq Cooling
        /\ Cardinality(CoolingListed) = Len(report.cooling_down)
        /\ Len(report.cooling_down) = IF Cardinality(Cooling) < 5 THEN Cardinality(Cooling) ELSE 5
        /\ CoolingOrdered
        /\ \A c \in Cooling \ CoolingListed : \A l \in CoolingListed : c.h1 - c.h2 <= l.h1 - l.h2

\* The claim as it stands: a contact is listed if and only if h1 is at least 5 and h2
\* is less than half of h1, and the list is ordered by h1 - h2 descending.
C18_ListedIffCooling ==
    pc = "done" => (CoolingListed = Cooling /\ CoolingOrdered)

\* A contact with 10 calls before the midpoint and 3 after is listed with a
\* difference of 7, and a contact with 6 and 3 is not listed.
C18_Witness ==
    /\ pc = "done"
    /\ \E name \in CallNames : HalfCountsOf(name).h1 = 6 /\ HalfCountsOf(name).h2 = 3
    /\ Len(report.cooling_down) = 1
    /\ report.cooling_down[1].h1 = 10 /\ report.cooling_down[1].h2 = 3
    /\ report.cooling_down[1].h1 - report.cooling_down[1].h2 = 7

\* Six contacts cool down and five are listed.
C18_CutWitness ==
    /\ pc = "done"
    /\ Cardinality(Cooling) = 6
    /\ Len(report.cooling_down) = 5

----------------------------------------------------------------------------
(* C19 *)

\* The names of the heating up list and of the cooling down list of the report.
HeatingNames == { report.heating_up[i].name : i \in 1..Len(report.heating_up) }
CoolingNames == { report.cooling_down[i].name : i \in 1..Len(report.cooling_down) }

\* C19: in a report no contact is both in the heating up list and in the cooling
\* down list.
C19_NotBothTrends ==
    pc = "done" => HeatingNames \cap CoolingNames = {}

\* A report with a contact heating up and another cooling down.
C19_Witness ==
    /\ pc = "done"
    /\ HeatingNames # {}
    /\ CoolingNames # {}
    /\ HeatingNames \cap CoolingNames = {}

----------------------------------------------------------------------------
(* C20 *)

\* The place of a listed item in the pool it was taken from: the items of a pool have
\* a name each.
PlaceIn(pool, item) == CHOOSE p \in 1..Len(pool) : pool[p].name = item.name

\* A list is the top n of a pool by a field: it has the items of the pool, each once,
\* n of them or all when there are fewer; the field does not increase along the list;
\* items with the same value keep the order they have in the pool; and no item left
\* out has a larger value than a listed one.
IsTopOf(list, pool, field, n) ==
    /\ Len(list) = IF Len(pool) < n THEN Len(pool) ELSE n
    /\ \A i \in 1..Len(list) : \E p \in 1..Len(pool) : pool[p] = list[i]
    /\ \A i \in 1..Len(list) : \A j \in 1..Len(list) : i # j => list[i].name # list[j].name
    /\ \A i \in 1..Len(list) : \A j \in (i + 1)..Len(list) :
          /\ list[i][field] >= list[j][field]
          /\ list[i][field] = list[j][field] => PlaceIn(pool, list[i]) < PlaceIn(pool, list[j])
    /\ \A p \in 1..Len(pool) :
          (\A i \in 1..Len(list) : list[i].name # pool[p].name) =>
              \A i \in 1..Len(list) : pool[p][field] <= list[i][field]

\* The profiles merge_data ranks: for each name of the entries, in the order the names
\* first come, the first of its entries with its largest total.
MergedProfiles ==
    LET entries == metric.args
        first(name) == CHOOSE i \in 1..Len(entries) :
                          /\ entries[i].name = name
                          /\ \A j \in 1..(i - 1) : entries[j].name # name
        firsts == { i \in 1..Len(entries) : first(entries[i].name) = i }
        best(name) == CHOOSE i \in 1..Len(entries) :
                         /\ entries[i].name = name
                         /\ \A j \in 1..Len(entries) :
                               entries[j].name = name =>
                                  /\ entries[j].total <= entries[i].total
                                  /\ j < i => entries[j].total < entries[i].total
    IN [p \in 1..Cardinality(firsts) |->
           entries[best(entries[CHOOSE i \in firsts :
                                   Cardinality({ j \in firsts : j < i }) = p - 1].name)]]

\* C20: the top by count list of analyze_calls has at most 10 profiles, ordered by
\* count non-increasing, profiles of the same count in the order of their insertion;
\* the top by duration list is built the same way from the duration; the top list of
\* merge_data the same way from the total; no profile left out of a list has a
\* larger key than one in it.
C20_TopLists ==
    /\ metric.fn = "top" =>
          /\ IsTopOf(metric.result.top_count, metric.args, "count", 10)
          /\ IsTopOf(metric.result.top_duration, metric.args, "duration", 10)
    /\ metric.fn = "merge_top" =>
          IsTopOf(metric.result, MergedProfiles, "total", 10)

\* Eleven profiles, more than one with the larger count and more than one with the
\* smaller: each list has ten of them and leaves out one of the smaller key.
C20_Witness ==
    /\ metric.fn = "top"
    /\ Len(metric.args) = 11
    /\ Len(metric.result.top_count) = 10
    /\ Len(metric.result.top_duration) = 10
    /\ metric.result.top_count[1].count = 2 /\ metric.result.top_count[2].count = 2
    /\ metric.result.top_count[9].count = 1 /\ metric.result.top_count[10].count = 1
    /\ metric.result.top_count[1].name # metric.args[1].name

\* Entries of eleven names given to merge_data: its list has ten.
C20_MergeWitness ==
    /\ metric.fn = "merge_top"
    /\ Len(MergedProfiles) = 11
    /\ Len(metric.result) = 10

\* Entries of merge_data with a name that comes twice: the name is listed once.
C20_MergeTwiceWitness ==
    /\ metric.fn = "merge_top"
    /\ Len(metric.args) = 3
    /\ Len(MergedProfiles) = 2
    /\ Len(metric.result) = 2

----------------------------------------------------------------------------
(* C21 *)

\* The buckets of the calls of the peak call: the hours of the day, or the days of
\* the week with 0 for Sunday.
PeakBuckets ==
    [i \in 1..Len(metric.args) |->
        IF metric.fn = "peak_hour"
        THEN (metric.args[i].timestamp % 86400) \div 3600
        ELSE (metric.args[i].timestamp \div 86400 + 4) % 7]

\* The number of calls in a bucket.
InBucket(b) == Cardinality({ i \in 1..Len(metric.args) : PeakBuckets[i] = b })

\* The buckets with the largest number of calls.
FullestBuckets ==
    LET all == IF metric.fn = "peak_hour" THEN 0..23 ELSE 0..6
    IN { b \in all : \A c \in all : InBucket(c) <= InBucket(b) }

\* The bucket reported.
PeakReported ==
    IF metric.fn = "peak_hour" THEN metric.result
    ELSE CHOOSE b \in 0..6 : days[b + 1] = metric.result

\* C21: with calls, the peak hour and the peak day are a bucket with the largest
\* number of calls, and of several such buckets the one of the lowest index.
C21_LowestFullestBucket ==
    (metric.fn \in {"peak_hour", "peak_day"} /\ metric.args # <<>>) =>
        /\ PeakReported \in FullestBuckets
        /\ \A b \in FullestBuckets : PeakReported <= b

\* What holds: the peak is a bucket with the largest number of calls, and of several
\* such buckets the one whose first call is the earliest; without calls the peak hour
\* is 12 and the peak day is unknown.
C21_EarliestFullestBucket ==
    /\ (metric.fn = "peak_hour" /\ metric.args = <<>>) => metric.result = 12
    /\ (metric.fn = "peak_day" /\ metric.args = <<>>) => metric.result = "Unknown"
    /\ (metric.fn \in {"peak_hour", "peak_day"} /\ metric.args # <<>>) =>
        /\ PeakReported \in FullestBuckets
        /\ \A b \in FullestBuckets :
              (CHOOSE i \in 1..Len(metric.args) :
                   PeakBuckets[i] = PeakReported
                   /\ \A j \in 1..(i - 1) : PeakBuckets[j] # PeakReported)
              <= (CHOOSE i \in 1..Len(metric.args) :
                      PeakBuckets[i] = b /\ \A j \in 1..(i - 1) : PeakBuckets[j] # b)

\* A call at 15 o'clock and a later one at 9 o'clock: the peak hour is 15.
C21_TieWitness ==
    /\ metric.fn = "peak_hour"
    /\ Len(metric.args) = 2
    /\ FullestBuckets = {9, 15}
    /\ metric.result = 15

\* A call on a Monday and a later one on a Sunday: the peak day is Monday.
C21_DayTieWitness ==
    /\ metric.fn = "peak_day"
    /\ Len(metric.args) = 2
    /\ FullestBuckets = {0, 1}
    /\ metric.result = "Monday"

----------------------------------------------------------------------------
(* C26 *)

\* The sum of one field over the profiles of contact_stats.
RECURSIVE ProfileSum(_, _)
ProfileSum(cstats, field) ==
    IF cstats = <<>> THEN 0 ELSE cstats[1][field] + ProfileSum(Tail(cstats), field)

\* C26: once analyze_calls has turned every phone key into a profile, the counts of
\* the profiles of contact_stats sum to stats.total and their durations sum to
\* stats.total_duration: no call is lost and none is counted twice.
C26_ProfilesSumToTotals ==
    pc \in {"report", "done"} =>
        /\ ProfileSum(contact_stats, "count") = stats.total
        /\ ProfileSum(contact_stats, "duration") = stats.total_duration

----------------------------------------------------------------------------
(* Vocabulary of the claims about main of call_wrapped.py *)

\* The rows of a table that have a date, by date.
Dated(table) == OrderByDate(SelectSeq(table, LAMBDA r : r.ts # NULL))

\* The rows of the call history that give a call: those with a date and an address
\* that resolves to a name.
KeptPhoneRows ==
    SelectSeq(Dated(db.phone.rows),
              LAMBDA r : r.phone # None /\ Truthy(get_name(r.phone, extract_contacts(book))))

\* The rows of the WhatsApp calls that give a call: those with a date and a JID that
\* resolves to a name.
KeptWhatsappRows ==
    SelectSeq(Dated(db.whatsapp.rows),
              LAMBDA r : r.jid # None
                         /\ Truthy(whatsapp_call_name(r.jid, load_wa_contacts(pushRows),
                                                      extract_contacts(book))))

\* The calls are those of the rows, one for one and in their order; a row with no
\* duration gives a call of duration 0.
CallsOfRows(calls, rows) ==
    /\ Len(calls) = Len(rows)
    /\ \A j \in 1..Len(rows) :
          /\ j <= Len(calls)
          /\ calls[j].timestamp = rows[j].ts + MAC_EPOCH
          /\ calls[j].duration = IF rows[j].duration = NULL THEN 0 ELSE rows[j].duration

\* A source is through: it was read to its last row, or it is not there and has
\* given no call.
PhoneThrough ==
    IF db.phone.readable
    THEN has_phone /\ CallsOfRows(phone_calls, KeptPhoneRows)
    ELSE ~has_phone /\ phone_calls = <<>>

WhatsappThrough ==
    IF db.whatsapp.readable
    THEN has_whatsapp /\ CallsOfRows(whatsapp_calls, KeptWhatsappRows)
    ELSE ~has_whatsapp /\ whatsapp_calls = <<>>

\* main is at analyze_calls or behind it.
AtAnalysis ==
    pc \in {"analyze", "convert", "report", "done", "join_analyze", "main_html",
            "gen_html", "join_html", "finished"}

\* analyze_calls has returned its report.
Reported == pc \in {"done", "join_analyze", "main_html", "gen_html", "join_html", "finished"}

----------------------------------------------------------------------------
(* C22 *)

\* C22: analyze_calls begins only when each source is through (analyze_phone_calls
\* and analyze_whatsapp_calls have each returned the calls of all their rows, or were
\* skipped with an empty list), no spinner thread of an extraction is left, and the
\* list it sorts is the two complete lists joined: never a partial event set.
C22_AnalysisAfterExtraction ==
    /\ [](AtAnalysis => PhoneThrough /\ WhatsappThrough)
    /\ [][AnalyzeCallsTally =>
            /\ PhoneThrough /\ WhatsappThrough
            /\ alive = {spinner.thread}
            /\ all_calls' = SortByTimestamp(phone_calls \o whatsapp_calls)]_vars

\* A run that read two rows of each source and has made its report.
C22_Witness ==
    /\ Reported
    /\ has_phone /\ has_whatsapp
    /\ Len(phone_rows) = 2 /\ Len(wa_rows) = 2
    /\ stats.total >= 3

----------------------------------------------------------------------------
(* C23 *)

\* C23: the run ends with sys.exit(1) exactly when neither source can be read.  When
\* one source is not there or gives no call, the run goes on to analyze_calls and
\* its report is made from the calls of the other source alone.
C23_OneSourceIsEnough ==
    /\ pc = "exit" => ~db.phone.readable /\ ~db.whatsapp.readable
    /\ (pc # "check_access" /\ ~db.phone.readable /\ ~db.whatsapp.readable) => pc = "exit"
    /\ (Reported /\ (~db.phone.readable \/ phone_calls = <<>>)) =>
          /\ report.made
          /\ all_calls = whatsapp_calls
          /\ stats.total = Len(KeptWhatsappRows)
    /\ (Reported /\ (~db.whatsapp.readable \/ whatsapp_calls = <<>>)) =>
          /\ report.made
          /\ all_calls = phone_calls
          /\ stats.total = Len(KeptPhoneRows)

\* A run with the call history only that went through to its end with a report of
\* two calls.
C23_Witness ==
    /\ pc = "finished"
    /\ db.phone.readable /\ ~db.whatsapp.readable
    /\ report.made
    /\ stats.total = 2

----------------------------------------------------------------------------
(* C24 *)

\* A row of the call history with a field missing.
MissingPhoneField(r) == r.phone = None \/ r.duration = NULL \/ r.ts = NULL

\* A row of the WhatsApp calls with a field missing.
MissingWhatsappField(r) == r.jid = None \/ r.duration = NULL \/ r.ts = NULL

\* Both extractions are over.
Extracted == pc = "main_analyze" \/ AtAnalysis

\* C24 as stated: a row with no date, no identifier or no duration gives no call, and
\* every other row that resolves to a name gives one.
C24_MissingFieldDropped ==
    Extracted =>
        /\ has_phone =>
              CallsOfRows(phone_calls,
                          SelectSeq(KeptPhoneRows, LAMBDA r : ~MissingPhoneField(r)))
        /\ has_whatsapp =>
              CallsOfRows(whatsapp_calls,
                          SelectSeq(KeptWhatsappRows, LAMBDA r : ~MissingWhatsappField(r)))

\* C24 as the code has it: a row with no date is not selected by the query and never
\* reaches the loop, a row with no identifier is skipped by the loop, and a row with
\* no duration gives a call of duration 0 (for WhatsApp an unanswered one).  No row
\* makes the extraction raise, and every row with a date and a name gives its call.
C24_MissingFieldHandled ==
    /\ \A i \in 1..Len(phone_rows) : phone_rows[i].ts # NULL
    /\ \A i \in 1..Len(wa_rows) : wa_rows[i].ts # NULL
    /\ Extracted =>
          /\ has_phone => CallsOfRows(phone_calls, KeptPhoneRows)
          /\ has_whatsapp => CallsOfRows(whatsapp_calls, KeptWhatsappRows)
          /\ \A j \in 1..Len(whatsapp_calls) :
                whatsapp_calls[j].answered = (whatsapp_calls[j].duration > 0)

\* A finished run whose call history held a row with no address and a row of Al with
\* no duration: the report has the one call of Al, of 0 seconds.
C24_Witness ==
    /\ pc = "finished"
    /\ \E i \in 1..Len(db.phone.rows) : db.phone.rows[i].phone = None
    /\ \E i \in 1..Len(db.phone.rows) :
          db.phone.rows[i].duration = NULL /\ db.phone.rows[i].phone # None
    /\ Len(phone_calls) = 1
    /\ phone_calls[1].duration = 0
    /\ stats.total = 1

----------------------------------------------------------------------------
(* C29 *)

\* C29: every spinner thread that is started returns: whenever a spin thread is
\* alive, a time comes when none is.
C29_SpinnersTerminate == (alive # {}) ~> (alive = {})

\* The parts of C29 about the paths on which nothing is raised: when the join of
\* stop has returned no spin thread is alive, and start finds none alive.
C29_StoppedWhenJoined ==
    /\ pc \in {"main_whatsapp", "main_analyze", "main_html", "finished"} => alive = {}
    /\ alive \subseteq {spinner.thread}

----------------------------------------------------------------------------
(* C25 *)

\* The data directory holds no JSON file.
NoJsonFile(dir) == ~dir.exists \/ dir.files = {}

\* C25: a run takes its steps in the order extract, summarize, build.  It extracts
\* exactly when the data directory held no JSON file, and otherwise leaves the files
\* as they are; it builds the report only when every JSON file has a summary, the
\* report then has a slide for each file; and while a file has no summary it prints
\* the instructions and returns with the report untouched.
C25_RunInOrder ==
    [][CommandRun =>
          /\ command'.name = "run"
          /\ Len(command'.steps) = 2
          /\ command'.steps[1] = (IF NoJsonFile(data_dir) THEN "extract" ELSE "skip")
          /\ command'.steps[1] = "skip" => data_dir' = data_dir
          /\ command'.steps[2] \in {"instructions", "build", "error"}
          /\ command'.steps[2] = "build" =>
                /\ \A f \in data_dir'.files : f.summary
                /\ html'.built
                /\ Len(html'.contacts) = Cardinality(data_dir'.files)
                /\ \A f \in data_dir'.files :
                      \E i \in 1..Len(html'.contacts) : html'.contacts[i] = f.name
          /\ (\E f \in data_dir'.files : ~f.summary) =>
                /\ command'.steps[2] = "instructions"
                /\ html' = html
          /\ command'.steps[2] = "error" => data_dir'.files = {} /\ html' = html]_vars

\* A run that found the files of an extraction of two contacts with their summaries
\* written, skipped the extraction and built the report of the two.
C25_Witness ==
    /\ command = [name |-> "run", steps |-> <<"skip", "build">>]
    /\ extracted.done
    /\ Cardinality(data_dir.files) = 2
    /\ Len(html.contacts) = 2

----------------------------------------------------------------------------
(* C30 *)

\* The names of the files of the most recent extraction.
LatestFiles ==
    { json_name(i - 1, extracted.contacts[i]) : i \in 1..Len(extracted.contacts) }

\* C30: once there has been an extraction, the JSON files of the data directory are
\* those of the most recent extraction, one for each of its contacts and at most
\* top_n of them, and a report that is built has no other slides.
C30_OnlyLatestExtraction ==
    extracted.done =>
        /\ { f.file : f \in data_dir.files } = LatestFiles
        /\ Cardinality(data_dir.files) <= extracted.top_n
        /\ command.steps = <<"build">> => Len(html.contacts) <= extracted.top_n

----------------------------------------------------------------------------
(* Vocabulary of the claims about LocalBrief *)

\* A step in which refresh is called: by Cmd-R, by the first timer or by a timer of
\* a render.
RefreshCalled == KeyRefresh \/ InitialRefresh \/ AutoRefresh

\* The screen shows what a render drew.
Rendered == screen.shows \in {"dashboard", "error", "nodata"}

\* No thread is loading and no short-lived callback is pending.
BriefQuiet ==
    /\ loaders = {}
    /\ ~timers.initial
    /\ timers.updates = 0
    /\ timers.renders = <<>>

----------------------------------------------------------------------------
(* C27 *)

\* At most one _load_data thread is alive.
C27_OneLoader == Cardinality(loaders) <= 1

\* A refresh called while self.loading is set starts no thread and changes neither
\* the application's fields nor the screen.
C27_RefusedWhileLoading ==
    [][(RefreshCalled /\ app.loading) => UNCHANGED <<app, loaders, screen, started>>]_vars

\* The render that the thread of a load scheduled draws the data of that load.
C27_RenderOfItsData ==
    [][Render => screen'.load = Head(timers.renders)]_vars

\* A loading frame is drawn over what a render drew only once a refresh has started
\* a load later than the one rendered.
C27_NoFrameOverRender ==
    [][(Rendered /\ screen'.shows = "loading") => started' > screen.load]_vars

\* C27: at most one data-loading thread runs at any time: a refresh called while a
\* load is in progress starts no thread and changes no state, each load is followed
\* by one render of its own data, and no loading frame overwrites that render before
\* the next refresh starts.
C27_OneLoadOneRender ==
    /\ []C27_OneLoader
    /\ C27_RefusedWhileLoading
    /\ C27_RenderOfItsData
    /\ C27_NoFrameOverRender

----------------------------------------------------------------------------
(* C28 *)

\* At most one automatic refresh is pending.
C28_AtMostOneTimer == Len(timers.autos) <= 1

\* Once a render has drawn and nothing is in progress, an automatic refresh is
\* pending.
C28_NeverStops == (Rendered /\ BriefQuiet) => Len(timers.autos) >= 1

\* C28: at most one automatic refresh is pending at any time, whatever manual
\* refreshes, automatic refreshes and renders (early returns included) came before,
\* and one is pending whenever the application rests on a render.
C28_OnePendingTimer == C28_AtMostOneTimer /\ C28_NeverStops

====
